---- MODULE Spec2Model ----
(***************************************************************************)
(* beangrid formula engine: FormulaProcessor.process_workbook              *)
(* (core/processor.py), DependencyGraph and FormulaEvaluator               *)
(* (core/evaluator.py) and the formula front end (core/parser.py).         *)
(*                                                                         *)
(* Python values are tagged records: None, numbers (exact rationals n/d    *)
(* with a flag telling int from float), bool, str and list.  A raised      *)
(* exception travels as the record Exc(msg) until a try/except of the      *)
(* source catches it.  Python strings are TLA+ strings; f-strings are \o.  *)
(*                                                                         *)
(* Formula text.  The Lark library that turns excel_grammar into a parser  *)
(* is not part of the repository, so a formula string is represented by    *)
(* what the grammar and ExcelTransformer make of it: a flag for a leading  *)
(* '=' character and a body that is either the expression the remaining    *)
(* text spells (tests/test_parser.py pairs texts with these trees) or the  *)
(* marker Unparseable for text that spells no expression ("A1 +").         *)
(***************************************************************************)
EXTENDS Integers, Sequences, FiniteSets, TLC

VARIABLES
    heap,                  \* Python objects: address -> Cell / Sheet / Workbook
    input,                 \* address of the workbook passed to the running call
    dependencies,          \* DependencyGraph.dependencies (dict)
    depOrder,              \* insertion order of the keys of dependencies
    reverse_dependencies,  \* DependencyGraph.reverse_dependencies (dict)
    evaluated_cells,       \* FormulaProcessor.evaluated_cells (dict)
    pc,                    \* position inside process_workbook
    in_degree,             \* local of get_evaluation_order
    queue,                 \* local of get_evaluation_order
    evaluation_order,      \* get_evaluation_order's result, consumed by the loop
    outcome,               \* how the last call ended
    input0,                \* the input workbook as it was when the call began
    evalLog,               \* keys whose formula was evaluated in this pass
    calls                  \* number of process_workbook calls begun

vars == <<heap, input, dependencies, depOrder, reverse_dependencies,
          evaluated_cells, pc, in_degree, queue, evaluation_order, outcome,
          input0, evalLog, calls>>

-----------------------------------------------------------------------------
(* Bounds of the model *)

\* at most this many formula cells on Sheet1 of an input workbook
MaxFormulaCells == 2

\* at most this many process_workbook calls on one processor (SpecReuse)
MaxCalls == 2

-----------------------------------------------------------------------------
(* Python values *)

NoneV == [t |-> "none"]
Str(s) == [t |-> "str", s |-> s]
BoolV(b) == [t |-> "bool", b |-> b]
ListV(items) == [t |-> "list", items |-> items]
Exc(msg) == [t |-> "exc", msg |-> msg]

RECURSIVE GCD(_, _)
GCD(a, b) == IF b = 0 THEN a ELSE GCD(b, a % b)

Abs(x) == IF x < 0 THEN -x ELSE x

\* the number n/d in lowest terms; fl tells a Python float from an int
Num(n, d, fl) ==
    LET g == GCD(Abs(n), Abs(d))
        s == IF d < 0 THEN -1 ELSE 1
    IN  [t |-> "num", n |-> s * (n \div g), d |-> s * (d \div g), fl |-> fl]

PyInt(n) == Num(n, 1, FALSE)
PyFloat(n) == Num(n, 1, TRUE)

IsExc(v) == "t" \in DOMAIN v /\ v.t = "exc"

\* isinstance(v, (int, float)); bool is a subclass of int
IsNumber(v) == v.t \in {"num", "bool"}

\* the number a bool or number counts as in arithmetic
AsNum(v) == IF v.t = "bool" THEN PyInt(IF v.b THEN 1 ELSE 0) ELSE v

\* f"{float(value):.1f}": the number rounded to tenths, halves to even
Format1(v) ==
    LET a == Abs(10 * v.n)
        q == a \div v.d
        r == a % v.d
        tenths == IF 2 * r > v.d \/ (2 * r = v.d /\ q % 2 = 1) THEN q + 1 ELSE q
    IN  (IF v.n < 0 THEN "-" ELSE "") \o ToString(tenths \div 10) \o "."
            \o ToString(tenths % 10)

\* str() / repr() of the values a formula can produce; floats that are whole
\* print with ".0", other floats are not produced by the model's formulas
RECURSIVE PyRepr(_)
RECURSIVE ReprItems(_, _)
PyRepr(v) ==
    CASE v.t = "none" -> "None"
      [] v.t = "bool" -> IF v.b THEN "True" ELSE "False"
      [] v.t = "num" /\ ~v.fl -> ToString(v.n)
      [] v.t = "num" /\ v.fl /\ v.d = 1 -> ToString(v.n) \o ".0"
      [] v.t = "num" /\ v.fl /\ v.d # 1 -> Format1(v)
      [] v.t = "str" -> "'" \o v.s \o "'"
      [] v.t = "list" -> "[" \o ReprItems(v.items, 1) \o "]"

ReprItems(items, i) ==
    IF i > Len(items) THEN ""
    ELSE (IF i > 1 THEN ", " ELSE "") \o PyRepr(items[i]) \o ReprItems(items, i + 1)

PyStr(v) == IF v.t = "str" THEN v.s ELSE PyRepr(v)

-----------------------------------------------------------------------------
(* Cell references and the AST (core/parser.py) *)

\* A CELL_REF token /\$?[A-Za-z]{1,3}\$?\d{1,7}/ by its parts: col is the
\* sequence of its letters, row the number its digits spell.
Ref(col, row) == [cabs |-> FALSE, col |-> col, rabs |-> FALSE, row |-> row]

\* the text of a CELL_REF token
RECURSIVE Join(_)
Join(chars) == IF chars = <<>> THEN "" ELSE Head(chars) \o Join(Tail(chars))

RefStr(r) ==
    (IF r.cabs THEN "$" ELSE "") \o Join(r.col)
        \o (IF r.rabs THEN "$" ELSE "") \o ToString(r.row)

Number(v) == [k |-> "Number", num |-> v]
String(s) == [k |-> "String", str |-> s]
Bool(b) == [k |-> "Bool", bool |-> b]
\* sheet = "" is Cell.sheet = None
Cell(ref, sheet) == [k |-> "Cell", ref |-> RefStr(ref), tok |-> ref, sheet |-> sheet]
CellRange(start, end) == [k |-> "CellRange", start |-> start, end |-> end]
FuncCall(name, args) == [k |-> "FuncCall", name |-> name, args |-> args]
BinOp(left, op, right) == [k |-> "BinOp", left |-> left, op |-> op, right |-> right]
UnaryOp(op, operand) == [k |-> "UnaryOp", op |-> op, operand |-> operand]

\* text that spells no expression of excel_grammar
Unparseable == [k |-> "Unparseable"]

\* a formula string: eq says it begins with '=', body is what the rest spells
Formula(eq, body) == [t |-> "formula", eq |-> eq, body |-> body]

\* the exception Lark raises on text it cannot parse
ParseError == Exc("UnexpectedInput")

\* Text with several operators is kept as its sequence of tokens: operands
\* (a literal, a reference, a call or a parenthesised expression, each already
\* a tree) and operator signs.
Op(sign) == [k |-> "Op", op |-> sign]
Tokens(toks) == [k |-> "Tokens", toks |-> toks]

IsOp(tok) == tok.k = "Op"

\* parser.parse on a sequence of tokens.  excel_grammar gives every binary
\* operator the one rule `expr OP expr` and the signs the rule `"-" expr`,
\* with no levels and no priorities, so after `expr OP expr` (or `"-" expr`)
\* the LALR(1) table has both a reduce and a shift on a following operator;
\* the parser is built with parser="lalr", which keeps the shift.  The
\* operand on the right of an operator or a sign is therefore everything up
\* to the end of the enclosing expression.
RECURSIVE parse(_)
parse(toks) ==
    IF toks = <<>> THEN ParseError
    ELSE IF IsOp(toks[1])
    THEN IF toks[1].op \in {"-", "+"}
         THEN LET expr == parse(Tail(toks))
              IN  IF IsExc(expr) THEN expr ELSE UnaryOp(toks[1].op, expr)
         ELSE ParseError
    ELSE IF Len(toks) = 1 THEN toks[1]
    ELSE IF ~IsOp(toks[2]) THEN ParseError
    ELSE LET right == parse(SubSeq(toks, 3, Len(toks)))
         IN  IF IsExc(right) THEN right ELSE BinOp(toks[1], toks[2].op, right)

\* parse_excel_formula: parser.parse(formula).  No production of excel_grammar
\* begins with '=', and nothing removes one, so text with a leading '=' is
\* rejected like any other text that spells no expression.
parse_excel_formula(formula) ==
    IF formula.eq \/ formula.body = Unparseable THEN ParseError
    ELSE IF formula.body.k = "Tokens" THEN parse(formula.body.toks)
    ELSE formula.body

-----------------------------------------------------------------------------
(* Workbook objects (scheme/cell.py) on the heap *)

SchemeCell(id, value, formula) ==
    [cls |-> "Cell", id |-> id, value |-> value, formula |-> formula]
Sheet(name, cells) == [cls |-> "Sheet", name |-> name, cells |-> cells]
Workbook(sheets) == [cls |-> "Workbook", sheets |-> sheets]

\* `if cell.formula:` -- the formula is neither None nor the empty string
HasFormula(cell) == cell.formula # NoneV

\* The heap is the sequence of objects constructed so far; an object's
\* address is its index.  new(h, obj) constructs obj.
new(h, obj) == Append(h, obj)

\* The workbook a root address denotes, as nested values:
\* a sequence of [name, cells], cells a sequence of Cell objects.
Deref(h, root) ==
    [i \in 1..Len(h[root].sheets) |->
        LET s == h[h[root].sheets[i]]
        IN  [name |-> s.name,
             cells |-> [j \in 1..Len(s.cells) |-> h[s.cells[j]]]]]

\* Construct the objects of a workbook given as nested values (what a loader
\* or a test does before calling the processor); the root is the last object.
RECURSIVE AllocCells(_, _, _, _)
AllocCells(h, cells, j, addrs) ==
    IF j > Len(cells) THEN [heap |-> h, addrs |-> addrs]
    ELSE AllocCells(new(h, cells[j]), cells, j + 1, Append(addrs, Len(h) + 1))

RECURSIVE AllocSheets(_, _, _, _)
AllocSheets(h, wb, i, addrs) ==
    IF i > Len(wb) THEN new(h, Workbook(addrs))
    ELSE LET c == AllocCells(h, wb[i].cells, 1, <<>>)
             h2 == new(c.heap, Sheet(wb[i].name, c.addrs))
         IN  AllocSheets(h2, wb, i + 1, Append(addrs, Len(h2)))

Alloc(wb) == AllocSheets(<<>>, wb, 1, <<>>)

\* f"{sheet.name}!{cell.id}" if sheet.name else cell.id
Key(sheet_name, id) == IF sheet_name # "" THEN sheet_name \o "!" \o id ELSE id

\* `for sheet in workbook.sheets: for cell in sheet.cells:` -- the cells in
\* iteration order, each with the name of its sheet
RECURSIVE CellsInOrder(_, _)
CellsInOrder(wb, i) ==
    IF i > Len(wb) THEN <<>>
    ELSE [j \in 1..Len(wb[i].cells) |->
              [sheet |-> wb[i].name, cell |-> wb[i].cells[j]]]
         \o CellsInOrder(wb, i + 1)

\* the search loop of _evaluate_cell_with_dependencies: the first cell whose
\* key is cell_id, with its sheet name, or None
FindCell(wb, cell_id) ==
    LET all == CellsInOrder(wb, 1)
        hits == {n \in 1..Len(all) : Key(all[n].sheet, all[n].cell.id) = cell_id}
    IN  IF hits = {} THEN NoneV
        ELSE all[CHOOSE n \in hits : \A m \in hits : n <= m]

\* ComputedCellResolver._cell_cache.get(key): the dict keeps the last cell
\* stored under a key
CellCacheGet(wb, key) ==
    LET all == CellsInOrder(wb, 1)
        hits == {n \in 1..Len(all) : Key(all[n].sheet, all[n].cell.id) = key}
    IN  IF hits = {} THEN NoneV
        ELSE all[CHOOSE n \in hits : \A m \in hits : n >= m].cell

-----------------------------------------------------------------------------
(* DependencyGraph (core/evaluator.py) *)

\* Python dicts are functions; their keys' insertion order is kept beside
\* them where the code iterates over the dict.
EmptyDict == <<>>
DictGet(d, k, default) == IF k \in DOMAIN d THEN d[k] ELSE default
DictPut(d, k, v) == [x \in DOMAIN d \cup {k} |-> IF x = k THEN v ELSE d[x]]
OrderPut(order, d, k) == IF k \in DOMAIN d THEN order ELSE Append(order, k)

\* some enumeration of a set
RECURSIVE SetToSeq(_)
SetToSeq(S) ==
    IF S = {} THEN <<>>
    ELSE LET x == CHOOSE x \in S : TRUE IN <<x>> \o SetToSeq(S \ {x})

\* every order in which a Python set can be iterated: the order follows the
\* hashes of the strings, which differ from one interpreter run to the next
IterationOrders(S) ==
    {p \in [1..Cardinality(S) -> S] : \A x \in S : \E i \in DOMAIN p : p[i] = x}

\* DependencyGraph.__init__
NewGraph ==
    [dependencies |-> EmptyDict, depOrder |-> <<>>,
     reverse_dependencies |-> EmptyDict]

\* DependencyGraph.add_dependency (both dicts are defaultdict(set))
add_dependency(G, cell_id, depends_on) ==
    [dependencies |->
        DictPut(G.dependencies, cell_id,
                DictGet(G.dependencies, cell_id, {}) \cup {depends_on}),
     depOrder |-> OrderPut(G.depOrder, G.dependencies, cell_id),
     reverse_dependencies |->
        DictPut(G.reverse_dependencies, depends_on,
                DictGet(G.reverse_dependencies, depends_on, {}) \cup {cell_id})]

\* the cell is given an empty set when it has no entry
\* (FormulaProcessor._extract_dependencies, after the add_dependency calls)
register(G, cell_id) ==
    IF cell_id \in DOMAIN G.dependencies THEN G
    ELSE [G EXCEPT !.dependencies = DictPut(@, cell_id, {}),
                   !.depOrder = Append(@, cell_id)]

\* a get_dependencies that indexes the defaultdict, which inserts the key
GetDependenciesIndexing(G, cell_id) ==
    [G |-> register(G, cell_id), result |-> DictGet(G.dependencies, cell_id, {})]

\* DependencyGraph.get_dependencies: dict.get, the graph after the call and
\* the set returned
get_dependencies(G, cell_id) ==
    [G |-> G, result |-> DictGet(G.dependencies, cell_id, {})]

\* DependencyGraph.get_dependents
get_dependents(G, cell_id) ==
    [G |-> G, result |-> DictGet(G.reverse_dependencies, cell_id, {})]

\* one iteration order for every set of a dict of sets
SomeIteration(deps) == [c \in DOMAIN deps |-> SetToSeq(deps[c])]

\* every choice of an iteration order for each set of G.dependencies
RECURSIVE IterationsFrom(_, _, _)
IterationsFrom(G, i, iter) ==
    IF i > Len(G.depOrder) THEN {iter}
    ELSE UNION {IterationsFrom(G, i + 1, DictPut(iter, G.depOrder[i], p)) :
                    p \in IterationOrders(G.dependencies[G.depOrder[i]])}

Iterations(G) == IterationsFrom(G, 1, EmptyDict)

\* DependencyGraph.detect_cycles: the depth-first search; iter[c] is the
\* order in which the set dependencies[c] is iterated.
\* st = [visited, rec_stack, cycles].
RECURSIVE dfs(_, _, _, _)
RECURSIVE dfsLoop(_, _, _, _, _)
dfs(iter, cell_id, path, st) ==
    LET path1 == Append(path, cell_id)
        st1 == [visited |-> st.visited \cup {cell_id},
                rec_stack |-> st.rec_stack \cup {cell_id},
                cycles |-> st.cycles]
        st2 == dfsLoop(iter, path1, DictGet(iter, cell_id, <<>>), 1, st1)
    IN  [st2 EXCEPT !.rec_stack = @ \ {cell_id}]

dfsLoop(iter, path, todo, i, st) ==
    IF i > Len(todo) THEN st
    ELSE LET dep == todo[i]
             st1 == IF dep \notin st.visited THEN dfs(iter, dep, path, st)
                    ELSE IF dep \in st.rec_stack
                    THEN LET cycle_start ==
                                 CHOOSE n \in 1..Len(path) :
                                     /\ path[n] = dep
                                     /\ \A m \in 1..(n - 1) : path[m] # dep
                         IN  [st EXCEPT !.cycles =
                                 Append(@, SubSeq(path, cycle_start, Len(path))
                                           \o <<dep>>)]
                    ELSE st
         IN  dfsLoop(iter, path, todo, i + 1, st1)

RECURSIVE detectFrom(_, _, _, _)
detectFrom(iter, order, i, st) ==
    IF i > Len(order) THEN st
    ELSE detectFrom(iter, order, i + 1,
                    IF order[i] \notin st.visited
                    THEN dfs(iter, order[i], <<>>, st) ELSE st)

\* a search over the same iteration orders that passes over a cell's
\* reference to itself
DetectCyclesIteratingSkippingSelf(G, iter) ==
    detectFrom([c \in DOMAIN iter |-> SelectSeq(iter[c], LAMBDA d : d # c)],
               G.depOrder, 1,
               [visited |-> {}, rec_stack |-> {}, cycles |-> <<>>]).cycles

\* the list detect_cycles returns when the sets are iterated as iter says
detect_cycles_iterating(G, iter) ==
    detectFrom(iter, G.depOrder, 1,
               [visited |-> {}, rec_stack |-> {}, cycles |-> <<>>]).cycles

\* a search that does not follow a cell's reference to itself
DetectCyclesSkippingSelf(G) ==
    detectFrom(SomeIteration([c \in DOMAIN G.dependencies |-> G.dependencies[c] \ {c}]),
               G.depOrder, 1,
               [visited |-> {}, rec_stack |-> {}, cycles |-> <<>>]).cycles

\* detect_cycles under one iteration order (process_workbook asks only
\* whether the list is empty)
detect_cycles(G) == detect_cycles_iterating(G, SomeIteration(G.dependencies))

-----------------------------------------------------------------------------
(* FormulaProcessor: first pass (core/processor.py) *)

\* the key a Cell node reads, qualified by its own sheet or the current one
QualifiedRef(cell, current_sheet) ==
    IF cell.sheet # "" THEN cell.sheet \o "!" \o cell.ref
    ELSE IF current_sheet # "" THEN current_sheet \o "!" \o cell.ref
    ELSE cell.ref

\* FormulaProcessor._find_cell_dependencies: a range contributes its two
\* corners, each qualified on its own
RECURSIVE _find_cell_dependencies(_, _)
_find_cell_dependencies(ast, current_sheet) ==
    CASE ast.k = "Cell" -> {QualifiedRef(ast, current_sheet)}
      [] ast.k = "CellRange" ->
            {QualifiedRef(ast.start, current_sheet),
             QualifiedRef(ast.end, current_sheet)}
      [] ast.k = "BinOp" ->
            _find_cell_dependencies(ast.left, current_sheet)
                \cup _find_cell_dependencies(ast.right, current_sheet)
      [] ast.k = "UnaryOp" -> _find_cell_dependencies(ast.operand, current_sheet)
      [] ast.k = "FuncCall" ->
            UNION {_find_cell_dependencies(ast.args[i], current_sheet) :
                       i \in 1..Len(ast.args)}
      [] OTHER -> {}

RECURSIVE AddAll(_, _, _)
AddAll(G, cell_id, deps) ==
    IF deps = {} THEN G
    ELSE LET dep == CHOOSE d \in deps : TRUE
         IN  AddAll(add_dependency(G, cell_id, dep), cell_id, deps \ {dep})

\* FormulaProcessor._extract_dependencies: a formula that does not parse is
\* skipped (except Exception: pass)
_extract_dependencies(G, cell, sheet_name) ==
    LET ast == parse_excel_formula(cell.formula)
        cell_id == Key(sheet_name, cell.id)
    IN  IF IsExc(ast) THEN G
        ELSE LET G1 == AddAll(G, cell_id, _find_cell_dependencies(ast, sheet_name))
             IN  register(G1, cell_id)

\* FormulaProcessor._build_dependency_graph
RECURSIVE buildFrom(_, _, _)
buildFrom(G, all, n) ==
    IF n > Len(all) THEN G
    ELSE buildFrom(IF HasFormula(all[n].cell)
                   THEN _extract_dependencies(G, all[n].cell, all[n].sheet)
                   ELSE G,
                   all, n + 1)

_build_dependency_graph(G, wb) == buildFrom(G, CellsInOrder(wb, 1), 1)

-----------------------------------------------------------------------------
(* ComputedCellResolver (core/processor.py, inside                         *)
(* _evaluate_cell_with_dependencies)                                       *)

\* int(text) / float(text) on the raw cell texts the model's workbooks hold;
\* any other text raises ValueError and is returned as it is
NumberOfText(text) ==
    IF \E n \in 0..10 : ToString(n) = text
    THEN PyInt(CHOOSE n \in 0..10 : ToString(n) = text)
    ELSE IF text = "1.5" THEN Num(3, 2, TRUE)
    ELSE Str(text)

\* a get_cell_value that returns what is stored on a cell whenever the cell
\* stores a value, formula cell or not
GetCellValueStoredFirst(wb, computed_values, sheet, ref, current_sheet) ==
    LET key == IF sheet # "" THEN sheet \o "!" \o ref
               ELSE IF current_sheet # "" THEN current_sheet \o "!" \o ref
               ELSE ref
        cell == CellCacheGet(wb, key)
    IN  IF cell # NoneV /\ cell.value # NoneV THEN NumberOfText(cell.value.s)
        ELSE IF key \in DOMAIN computed_values THEN computed_values[key]
        ELSE NoneV

\* ComputedCellResolver.get_cell_value.  sheet = "" stands for a cell_ref
\* without '!'.  The name sheet_name is assigned only in the '!' branch, so
\* it is an unbound local when an unqualified reference reaches line 235.
\* The text of that UnboundLocalError differs between Python versions; the
\* model writes it "UnboundLocalError: sheet_name".
get_cell_value(wb, computed_values, sheet, ref, current_sheet) ==
    LET key == IF sheet # "" THEN sheet \o "!" \o ref
               ELSE IF current_sheet # "" THEN current_sheet \o "!" \o ref
               ELSE ref
        cell == CellCacheGet(wb, key)
    IN  IF key \in DOMAIN computed_values THEN computed_values[key]
        ELSE IF cell = NoneV THEN NoneV
        ELSE IF HasFormula(cell)
        THEN IF sheet = "" THEN Exc("UnboundLocalError: sheet_name")
             ELSE DictGet(computed_values, Key(sheet, cell.id), NoneV)
        ELSE IF cell.value = NoneV THEN NoneV
        ELSE NumberOfText(cell.value.s)

UpperLetters == <<"A", "B", "C", "D", "E", "F", "G", "H", "I", "J", "K", "L", "M",
                  "N", "O", "P", "Q", "R", "S", "T", "U", "V", "W", "X", "Y", "Z">>

\* ord(char.upper()) - ord("A") + 1 for an upper-case letter
LetterNumber(char) == CHOOSE n \in 1..Len(UpperLetters) : UpperLetters[n] = char

IsUpper(col) == \A i \in 1..Len(col) : \E n \in 1..Len(UpperLetters) : UpperLetters[n] = col[i]

\* ComputedCellResolver._column_to_number
RECURSIVE _column_to_number(_)
_column_to_number(col_str) ==
    IF col_str = <<>> THEN 0
    ELSE _column_to_number(SubSeq(col_str, 1, Len(col_str) - 1)) * 26
             + LetterNumber(col_str[Len(col_str)])

\* ComputedCellResolver._number_to_column
RECURSIVE _number_to_column(_)
_number_to_column(col_num) ==
    IF col_num <= 0 THEN ""
    ELSE _number_to_column((col_num - 1) \div 26)
             \o UpperLetters[((col_num - 1) % 26) + 1]

\* ComputedCellResolver._format_cell_ref
_format_cell_ref(col, row) == _number_to_column(col) \o ToString(row)

\* What re.match(r"([A-Z]+)(\d+)", ...) finds at the start of a sheet name
\* followed by '!': the name "S1" begins like a cell reference, the names
\* "Sheet1", "Sheet2" and "Data" have a lower-case second character.
SheetNameAsRef(sheet) ==
    IF sheet = "S1" THEN [col |-> <<"S">>, row |-> 1] ELSE NoneV

\* ComputedCellResolver._parse_cell_ref: re.match(r"([A-Z]+)(\d+)", cell_ref)
\* on the text it is given, sheet prefix included, so a qualified reference
\* is read off its sheet name or not at all.  The pattern does not match a
\* reference that starts with '$', has '$' before the row, or has lower-case
\* letters.
_parse_cell_ref(sheet, tok) ==
    IF sheet # ""
    THEN IF SheetNameAsRef(sheet) # NoneV
         THEN [col |-> _column_to_number(SheetNameAsRef(sheet).col),
               row |-> SheetNameAsRef(sheet).row]
         ELSE Exc("Invalid cell reference: " \o sheet \o "!" \o RefStr(tok))
    ELSE IF tok.cabs \/ tok.rabs \/ ~IsUpper(tok.col)
    THEN Exc("Invalid cell reference: " \o RefStr(tok))
    ELSE [col |-> _column_to_number(tok.col), row |-> tok.row]

\* ComputedCellResolver.get_cell_range_values: rows outermost, every cell read
\* without sheet prefix on the current sheet; the first exception ends it
RECURSIVE rangeLoop(_, _, _, _, _, _, _, _)
rangeLoop(wb, computed_values, current_sheet, lo, hi, row, col, values) ==
    IF row > hi.row THEN ListV(values)
    ELSE IF col > hi.col
    THEN rangeLoop(wb, computed_values, current_sheet, lo, hi, row + 1, lo.col, values)
    ELSE LET value == get_cell_value(wb, computed_values, "",
                                     _format_cell_ref(col, row), current_sheet)
         IN  IF IsExc(value) THEN value
             ELSE rangeLoop(wb, computed_values, current_sheet, lo, hi, row,
                            col + 1, Append(values, value))

get_cell_range_values(wb, computed_values, start, end, current_sheet) ==
    LET lo == _parse_cell_ref(start.sheet, start.tok)
        hi == _parse_cell_ref(end.sheet, end.tok)
    IN  IF IsExc(lo) THEN lo
        ELSE IF IsExc(hi) THEN hi
        ELSE rangeLoop(wb, computed_values, current_sheet, lo, hi,
                       lo.row, lo.col, <<>>)

-----------------------------------------------------------------------------
(* FormulaEvaluator (core/evaluator.py) *)

\* arithmetic of Python numbers; a result is a float as soon as one operand is
NumAdd(a, b) == Num(a.n * b.d + b.n * a.d, a.d * b.d, a.fl \/ b.fl)
NumSub(a, b) == Num(a.n * b.d - b.n * a.d, a.d * b.d, a.fl \/ b.fl)
NumMul(a, b) == Num(a.n * b.n, a.d * b.d, a.fl \/ b.fl)
NumDiv(a, b) == Num(a.n * b.d, a.d * b.n, TRUE)
NumLess(a, b) == a.n * b.d < b.n * a.d
NumEq(a, b) == a.n = b.n /\ a.d = b.d

\* left ** right for a whole exponent
RECURSIVE NumPow(_, _)
NumPow(a, e) == IF e = 0 THEN PyInt(1) ELSE NumMul(a, NumPow(a, e - 1))

\* Python's == on values
RECURSIVE PyEq(_, _)
PyEq(a, b) ==
    IF IsNumber(a) /\ IsNumber(b) THEN NumEq(AsNum(a), AsNum(b))
    ELSE IF a.t = "list" /\ b.t = "list"
    THEN /\ Len(a.items) = Len(b.items)
         /\ \A i \in 1..Len(a.items) : PyEq(a.items[i], b.items[i])
    ELSE a = b

\* Python's truth value
Truthy(v) ==
    CASE v.t = "none" -> FALSE
      [] v.t = "bool" -> v.b
      [] v.t = "num" -> v.n # 0
      [] v.t = "str" -> v.s # ""
      [] v.t = "list" -> v.items # <<>>

\* the first exception among evaluated values, if any
FirstExc(values) ==
    LET bad == {i \in 1..Len(values) : IsExc(values[i])}
    IN  IF bad = {} THEN NoneV ELSE values[CHOOSE i \in bad : \A j \in bad : i <= j]

\* the numbers among args, lists flattened one level (the loop shared by
\* _average, _max and _min)
RECURSIVE Numbers(_)
Numbers(args) ==
    IF args = <<>> THEN <<>>
    ELSE LET arg == Head(args)
         IN  (IF arg.t = "list"
              THEN SelectSeq(arg.items, LAMBDA v : IsNumber(v))
              ELSE IF IsNumber(arg) THEN <<arg>> ELSE <<>>)
             \o Numbers(Tail(args))

\* FormulaEvaluator._sum: lists are summed recursively, anything that is not
\* a number is passed over
RECURSIVE _sum(_)
_sum(args) ==
    IF args = <<>> THEN PyFloat(0)
    ELSE LET arg == args[Len(args)]
             rest == _sum(SubSeq(args, 1, Len(args) - 1))
         IN  IF arg.t = "list" THEN NumAdd(rest, _sum(arg.items))
             ELSE IF IsNumber(arg) THEN NumAdd(rest, AsNum(arg))
             ELSE rest

\* sum(values) of the built-in sum: starts from the int 0
RECURSIVE BuiltinSum(_)
BuiltinSum(values) ==
    IF values = <<>> THEN PyInt(0)
    ELSE NumAdd(BuiltinSum(SubSeq(values, 1, Len(values) - 1)),
                AsNum(values[Len(values)]))

\* FormulaEvaluator._average
_average(args) ==
    LET values == Numbers(args)
    IN  IF values = <<>> THEN PyFloat(0)
        ELSE NumDiv(BuiltinSum(values), PyInt(Len(values)))

\* FormulaEvaluator._count
RECURSIVE _count(_)
_count(args) ==
    IF args = <<>> THEN 0
    ELSE (LET arg == Head(args)
          IN  IF arg.t = "list"
              THEN Len(SelectSeq(arg.items, LAMBDA v : v # NoneV))
              ELSE IF arg # NoneV THEN 1 ELSE 0)
         + _count(Tail(args))

\* max(values): the first of the greatest elements
BuiltinMax(values) ==
    values[CHOOSE i \in 1..Len(values) :
              /\ \A j \in 1..Len(values) : ~NumLess(AsNum(values[i]), AsNum(values[j]))
              /\ \A j \in 1..(i - 1) : NumLess(AsNum(values[j]), AsNum(values[i]))]

\* min(values): the first of the least elements
BuiltinMin(values) ==
    values[CHOOSE i \in 1..Len(values) :
              /\ \A j \in 1..Len(values) : ~NumLess(AsNum(values[j]), AsNum(values[i]))
              /\ \A j \in 1..(i - 1) : NumLess(AsNum(values[i]), AsNum(values[j]))]

\* FormulaEvaluator._max
_max(args) ==
    LET values == Numbers(args)
    IN  IF values = <<>> THEN PyInt(0) ELSE BuiltinMax(values)

\* FormulaEvaluator._min
_min(args) ==
    LET values == Numbers(args)
    IN  IF values = <<>> THEN PyInt(0) ELSE BuiltinMin(values)

\* FormulaEvaluator._if
_if(args) ==
    IF Len(args) < 2 THEN Str("#VALUE!")
    ELSE IF Truthy(args[1]) THEN args[2]
    ELSE IF Len(args) > 2 THEN args[3] ELSE BoolV(FALSE)

\* str.upper() on the function names the model's formulas use
Upper(name) ==
    CASE name = "sum" -> "SUM"
      [] name = "foo" -> "FOO"
      [] OTHER -> name

\* the arithmetic branch of _evaluate_binary_op
Arithmetic(op, left, right) ==
    IF ~IsNumber(left) \/ ~IsNumber(right) THEN Str("#VALUE!")
    ELSE LET a == AsNum(left)
             b == AsNum(right)
         IN  CASE op = "+" -> NumAdd(a, b)
               [] op = "-" -> NumSub(a, b)
               [] op = "*" -> NumMul(a, b)
               [] op = "/" -> IF b.n = 0 THEN Str("#DIV/0!") ELSE NumDiv(a, b)
               [] op = "^" /\ b.d = 1 /\ b.n >= 0 ->
                     [NumPow(a, b.n) EXCEPT !.fl = a.fl \/ b.fl]

\* type(v).__name__
TypeName(v) ==
    CASE v.t = "none" -> "NoneType"
      [] v.t = "bool" -> "bool"
      [] v.t = "num" -> IF v.fl THEN "float" ELSE "int"
      [] v.t = "str" -> "str"
      [] v.t = "list" -> "list"

\* the strings the model's formulas can order, in code point order
OrderedStrings ==
    <<"#DIV/0!", "#NAME?", "#VALUE!", "a", "b">>

\* Python's < on two strings
StrLess(a, b) ==
    \E i, j \in DOMAIN OrderedStrings :
        OrderedStrings[i] = a /\ OrderedStrings[j] = b /\ i < j

\* Python's < on two values that can be ordered
PyLess(a, b) ==
    IF a.t = "str" THEN StrLess(a.s, b.s) ELSE NumLess(AsNum(a), AsNum(b))

\* whether Python orders two values: numbers with numbers, str with str
Orderable(a, b) ==
    \/ IsNumber(a) /\ IsNumber(b)
    \/ a.t = "str" /\ b.t = "str"

\* the comparison branch of _evaluate_binary_op; ordering two values Python
\* does not order raises TypeError
Comparison(op, left, right) ==
    CASE op = "=" -> BoolV(PyEq(left, right))
      [] op = "<>" -> BoolV(~PyEq(left, right))
      [] op \in {"<", ">", "<=", ">="} /\ ~Orderable(left, right) ->
            Exc("'" \o op \o "' not supported between instances of '"
                    \o TypeName(left) \o "' and '" \o TypeName(right) \o "'")
      [] op = "<" -> BoolV(PyLess(left, right))
      [] op = ">" -> BoolV(PyLess(right, left))
      [] op = "<=" -> BoolV(~PyLess(right, left))
      [] op = ">=" -> BoolV(~PyLess(left, right))

\* FormulaEvaluator._evaluate_ast and the methods it dispatches to.  R is the
\* resolver state [wb, computed_values, current_sheet].
RECURSIVE _evaluate_ast(_, _)

\* FormulaEvaluator._evaluate_cell
_evaluate_cell(cell, R) ==
    get_cell_value(R.wb, R.computed_values, cell.sheet, cell.ref, R.current_sheet)

\* FormulaEvaluator._evaluate_cell_range
_evaluate_cell_range(cell_range, R) ==
    get_cell_range_values(R.wb, R.computed_values, cell_range.start,
                          cell_range.end, R.current_sheet)

\* FormulaEvaluator._evaluate_function
_evaluate_function(func_call, R) ==
    LET func_name == Upper(func_call.name)
        args == [i \in 1..Len(func_call.args) |-> _evaluate_ast(func_call.args[i], R)]
    IN  IF FirstExc(args) # NoneV THEN FirstExc(args)
        ELSE CASE func_name = "SUM" -> _sum(args)
               [] func_name = "AVERAGE" -> _average(args)
               [] func_name = "COUNT" -> PyInt(_count(args))
               [] func_name = "MAX" -> _max(args)
               [] func_name = "MIN" -> _min(args)
               [] func_name = "IF" -> _if(args)
               [] OTHER -> Str("#NAME?")

\* FormulaEvaluator._evaluate_binary_op
_evaluate_binary_op(bin_op, R) ==
    LET left == _evaluate_ast(bin_op.left, R)
        right == _evaluate_ast(bin_op.right, R)
    IN  IF IsExc(left) THEN left
        ELSE IF IsExc(right) THEN right
        ELSE IF bin_op.op \in {"+", "-", "*", "/", "^"}
        THEN Arithmetic(bin_op.op, left, right)
        ELSE IF bin_op.op \in {"=", "<>", "<=", ">=", "<", ">"}
        THEN Comparison(bin_op.op, left, right)
        ELSE IF bin_op.op = "&"
        THEN Str(PyStr(left) \o PyStr(right))
        ELSE Str("#VALUE!")

\* FormulaEvaluator._evaluate_unary_op
_evaluate_unary_op(unary_op, R) ==
    LET operand == _evaluate_ast(unary_op.operand, R)
    IN  IF IsExc(operand) THEN operand
        ELSE IF ~IsNumber(operand) THEN Str("#VALUE!")
        ELSE IF unary_op.op = "-" THEN NumSub(PyInt(0), AsNum(operand))
        ELSE IF unary_op.op = "+" THEN operand
        ELSE Str("#VALUE!")

_evaluate_ast(ast, R) ==
    CASE ast.k = "Number" -> ast.num
      [] ast.k = "String" -> Str(ast.str)
      [] ast.k = "Bool" -> BoolV(ast.bool)
      [] ast.k = "Cell" -> _evaluate_cell(ast, R)
      [] ast.k = "CellRange" -> _evaluate_cell_range(ast, R)
      [] ast.k = "FuncCall" -> _evaluate_function(ast, R)
      [] ast.k = "BinOp" -> _evaluate_binary_op(ast, R)
      [] ast.k = "UnaryOp" -> _evaluate_unary_op(ast, R)
      [] OTHER -> Exc("ValueError: Unknown AST node type")

\* FormulaEvaluator.evaluate: whatever is raised comes back as the text
\* "#ERROR: " followed by the exception's message
evaluate(formula, R) ==
    LET ast == parse_excel_formula(formula)
        result == IF IsExc(ast) THEN ast ELSE _evaluate_ast(ast, R)
    IN  IF IsExc(result) THEN Str("#ERROR: " \o result.msg) ELSE result

-----------------------------------------------------------------------------
(* DependencyGraph.get_evaluation_order (core/evaluator.py) *)

AppendNew(seq, x) ==
    IF \E i \in 1..Len(seq) : seq[i] = x THEN seq ELSE Append(seq, x)

RECURSIVE AppendAllNew(_, _, _)
AppendAllNew(seq, xs, i) ==
    IF i > Len(xs) THEN seq ELSE AppendAllNew(AppendNew(seq, xs[i]), xs, i + 1)

\* The insertion orders the keys of in_degree can have after the two
\* initialising loops: the cells of dependencies in dict order, each followed
\* by its dependencies in the order its set is iterated; then the cells that
\* have no dependency.
RECURSIVE InDegreeOrders(_, _, _)
InDegreeOrders(G, i, acc) ==
    IF i > Len(G.depOrder) THEN {AppendAllNew(acc, G.depOrder, 1)}
    ELSE LET cell_id == G.depOrder[i]
             deps == G.dependencies[cell_id]
         IN  IF deps = {} THEN InDegreeOrders(G, i + 1, acc)
             ELSE UNION {InDegreeOrders(G, i + 1,
                                        AppendAllNew(AppendNew(acc, cell_id), p, 1)) :
                             p \in IterationOrders(deps)}

\* an in_degree that counts a cell with dependencies as having one
InDegreeCountingOnce(G) ==
    LET nodes == DOMAIN G.dependencies \cup UNION {G.dependencies[c] : c \in DOMAIN G.dependencies}
    IN  [c \in nodes |-> IF DictGet(G.dependencies, c, {}) = {} THEN 0 ELSE 1]

\* in_degree after the initialising loops
InDegree0(G) ==
    LET nodes == DOMAIN G.dependencies \cup UNION {G.dependencies[c] : c \in DOMAIN G.dependencies}
    IN  [c \in nodes |-> Cardinality(DictGet(G.dependencies, c, {}))]

\* queue = [cell_id for cell_id in in_degree if in_degree[cell_id] == 0]
InitialQueues(G) ==
    {SelectSeq(order, LAMBDA c : InDegree0(G)[c] = 0) : order \in InDegreeOrders(G, 1, <<>>)}

\* the for loop over the dependents of the dequeued cell, in iteration order p
RECURSIVE Release(_, _, _)
Release(st, p, i) ==
    IF i > Len(p) THEN st
    ELSE LET dependent == p[i]
             d == DictGet(st.in_degree, dependent, 0) - 1
         IN  Release([in_degree |-> DictPut(st.in_degree, dependent, d),
                      queue |-> IF d = 0 THEN Append(st.queue, dependent) ELSE st.queue,
                      result |-> st.result],
                     p, i + 1)

\* an iteration that dequeues the cell and leaves its dependents alone
KahnStepWithoutDependents(G, st, p) ==
    [in_degree |-> st.in_degree, queue |-> Tail(st.queue),
     result |-> Append(st.result, Head(st.queue))]

\* one iteration of `while queue:`
KahnStep(G, st, p) ==
    LET cell_id == Head(st.queue)
    IN  Release([in_degree |-> st.in_degree, queue |-> Tail(st.queue),
                 result |-> Append(st.result, cell_id)], p, 1)

\* every list get_evaluation_order can return from a loop state
RECURSIVE OrdersFrom(_, _)
OrdersFrom(G, st) ==
    IF st.queue = <<>> THEN {st.result}
    ELSE UNION {OrdersFrom(G, KahnStep(G, st, p)) :
                    p \in IterationOrders(DictGet(G.reverse_dependencies,
                                                  Head(st.queue), {}))}

\* every list get_evaluation_order can return
get_evaluation_order(G) ==
    UNION {OrdersFrom(G, [in_degree |-> InDegree0(G), queue |-> q, result |-> <<>>]) :
               q \in InitialQueues(G)}

-----------------------------------------------------------------------------
(* FormulaProcessor: second and third pass (core/processor.py) *)

\* FormulaProcessor._evaluate_cell_with_dependencies: the new evaluated_cells.
\* evaluate() catches every exception, so the except branch is never taken.
_evaluate_cell_with_dependencies(evaluated, cell_id, wb) ==
    LET found == FindCell(wb, cell_id)
    IN  IF found = NoneV \/ ~HasFormula(found.cell) THEN evaluated
        ELSE DictPut(evaluated, cell_id,
                     evaluate(found.cell.formula,
                              [wb |-> wb, computed_values |-> evaluated,
                               current_sheet |-> found.sheet]))

\* whether the loop body reaches evaluator.evaluate for this key
Evaluates(cell_id, wb) ==
    LET found == FindCell(wb, cell_id)
    IN  found # NoneV /\ HasFormula(found.cell)

\* a process_cell that formats the value of every cell as a number when its
\* text is one
ProcessedCellFormatsAll(cell, sheet_name, evaluated) ==
    LET got == DictGet(evaluated, Key(sheet_name, cell.id), NoneV)
        value == IF HasFormula(cell)
                 THEN IF got = NoneV THEN Str("#ERROR: Could not evaluate formula")
                      ELSE got
                 ELSE IF cell.value = NoneV THEN NoneV ELSE NumberOfText(cell.value.s)
        formatted_value ==
            IF value = NoneV THEN NoneV
            ELSE IF value.t = "num" THEN Str(Format1(value))
            ELSE Str(PyStr(value))
    IN  SchemeCell(cell.id, formatted_value, cell.formula)

\* a process_cell without the fallback for a formula cell that has no result
ProcessedCellNoFallback(cell, sheet_name, evaluated) ==
    LET value == IF HasFormula(cell)
                 THEN DictGet(evaluated, Key(sheet_name, cell.id), NoneV)
                 ELSE cell.value
        formatted_value ==
            IF value = NoneV THEN NoneV
            ELSE IF value.t = "num" THEN Str(Format1(value))
            ELSE Str(PyStr(value))
    IN  SchemeCell(cell.id, formatted_value, cell.formula)

\* a process_cell without the isinstance(value, bool) branch: a bool is an
\* int and takes the numeric format
ProcessedCellBoolAsNumber(cell, sheet_name, evaluated) ==
    LET got == DictGet(evaluated, Key(sheet_name, cell.id), NoneV)
        value == IF HasFormula(cell)
                 THEN IF got = NoneV THEN Str("#ERROR: Could not evaluate formula")
                      ELSE got
                 ELSE cell.value
        formatted_value ==
            IF value = NoneV THEN NoneV
            ELSE IF IsNumber(value) THEN Str(Format1(AsNum(value)))
            ELSE Str(PyStr(value))
    IN  SchemeCell(cell.id, formatted_value, cell.formula)

\* FormulaProcessor.process_cell: the Cell object it constructs
ProcessedCell(cell, sheet_name, evaluated) ==
    LET got == DictGet(evaluated, Key(sheet_name, cell.id), NoneV)
        value == IF HasFormula(cell)
                 THEN IF got = NoneV THEN Str("#ERROR: Could not evaluate formula")
                      ELSE got
                 ELSE cell.value
        formatted_value ==
            IF value = NoneV THEN NoneV
            ELSE IF value.t = "bool" THEN Str(PyStr(value))
            ELSE IF value.t = "num" THEN Str(Format1(value))
            ELSE Str(PyStr(value))
    IN  SchemeCell(cell.id, formatted_value, cell.formula)

\* a process_cell that also writes the formatted value into the input cell
ProcessCellInPlace(h, addr, sheet_name, evaluated) ==
    new([h EXCEPT ![addr] = ProcessedCell(h[addr], sheet_name, evaluated)],
        ProcessedCell(h[addr], sheet_name, evaluated))

\* FormulaProcessor.process_cell on the heap: the input cell is read, a new
\* Cell is constructed
process_cell(h, addr, sheet_name, evaluated) ==
    new(h, ProcessedCell(h[addr], sheet_name, evaluated))

\* FormulaProcessor.process_sheet: new cells, then a new Sheet holding them
RECURSIVE cellsLoop(_, _, _, _, _)
cellsLoop(h, sheet, j, evaluated, addrs) ==
    IF j > Len(sheet.cells) THEN new(h, Sheet(sheet.name, addrs))
    ELSE LET h1 == process_cell(h, sheet.cells[j], sheet.name, evaluated)
         IN  cellsLoop(h1, sheet, j + 1, evaluated, Append(addrs, Len(h1)))

process_sheet(h, addr, evaluated) == cellsLoop(h, h[addr], 1, evaluated, <<>>)

\* third pass of process_workbook: new sheets, then the new Workbook
RECURSIVE sheetsLoop(_, _, _, _, _)
sheetsLoop(h, wbobj, i, evaluated, addrs) ==
    IF i > Len(wbobj.sheets) THEN new(h, Workbook(addrs))
    ELSE LET h1 == process_sheet(h, wbobj.sheets[i], evaluated)
         IN  sheetsLoop(h1, wbobj, i + 1, evaluated, Append(addrs, Len(h1)))

ThirdPass(h, root, evaluated) == sheetsLoop(h, h[root], 1, evaluated, <<>>)

-----------------------------------------------------------------------------
(* Input workbooks of the model *)

A1 == Ref(<<"A">>, 1)
B1 == Ref(<<"B">>, 1)
A2 == Ref(<<"A">>, 2)
A3 == Ref(<<"A">>, 3)

One == Number(PyFloat(1))
Two == Number(PyFloat(2))
Zero == Number(PyFloat(0))

\* formulas a cell of Sheet1 may hold
Formulas1 ==
    { Formula(FALSE, BinOp(Cell(A1, ""), "+", One)),               \* A1 + 1
      Formula(FALSE, BinOp(Cell(A2, ""), "*", Two)),               \* A2 * 2
      Formula(FALSE, BinOp(Cell(A3, ""), "+", One)),               \* A3 + 1
      Formula(FALSE, BinOp(Cell(B1, ""), "+", One)),               \* B1 + 1
      Formula(FALSE, FuncCall("SUM", <<CellRange(Cell(A1, ""), Cell(A3, ""))>>)),
                                                                   \* SUM(A1:A3)
      Formula(FALSE, BinOp(Cell(A1, ""), "/", Zero)),              \* A1 / 0
      Formula(FALSE, FuncCall("FOO", <<>>)),                       \* FOO()
      Formula(FALSE, Unparseable),                                 \* A1 +
      Formula(TRUE, BinOp(Cell(A1, ""), "+", One)),                \* =A1 + 1
      Formula(FALSE, BinOp(Cell(A1, "Sheet2"), "+", One)) }        \* Sheet2!A1 + 1

\* the cell ids of Sheet1 in the order the sheet lists them
Ids1 == <<"A1", "B1", "A2", "A3">>

Absent == [cls |-> "Absent"]

\* what the slot of a cell id of Sheet1 may hold
Options1(id) ==
    {Absent, SchemeCell(id, Str("2"), NoneV)}
        \cup (IF id = "A3" THEN {SchemeCell(id, Str("x"), NoneV)} ELSE {})
        \cup {SchemeCell(id, NoneV, f) : f \in Formulas1}

\* Sheet2 lists at most the cell A1
Options2 ==
    { Absent,
      SchemeCell("A1", Str("10"), NoneV),
      SchemeCell("A1", NoneV, Formula(FALSE, BinOp(Cell(A1, "Sheet1"), "*", Two))) }
                                                                   \* Sheet1!A1 * 2

Present(slots) == SelectSeq(slots, LAMBDA c : c # Absent)

MkWorkbook(slots1, slot2) ==
    << [name |-> "Sheet1", cells |-> Present(slots1)],
       [name |-> "Sheet2", cells |-> Present(<<slot2>>)] >>

FormulaCount(slots) == Cardinality({i \in DOMAIN slots : slots[i] # Absent /\ HasFormula(slots[i])})

\* the workbooks a fresh processor is given
Workbooks ==
    {MkWorkbook(s1, s2) :
        s1 \in {s \in Options1(Ids1[1]) \X Options1(Ids1[2])
                          \X Options1(Ids1[3]) \X Options1(Ids1[4]) :
                    FormulaCount(s) <= MaxFormulaCells},
        s2 \in Options2}

-----------------------------------------------------------------------------
(* process_workbook as a state machine *)

Graph == [dependencies |-> dependencies, depOrder |-> depOrder,
          reverse_dependencies |-> reverse_dependencies]

NoOutcome == [kind |-> "none"]
Returned(root) == [kind |-> "returned", root |-> root]
Raised(msg) == [kind |-> "raised", msg |-> msg]

\* FormulaProcessor.__init__
Init ==
    /\ heap = <<>>
    /\ input = 0
    /\ dependencies = EmptyDict
    /\ depOrder = <<>>
    /\ reverse_dependencies = EmptyDict
    /\ evaluated_cells = EmptyDict
    /\ pc = "idle"
    /\ in_degree = EmptyDict
    /\ queue = <<>>
    /\ evaluation_order = <<>>
    /\ outcome = NoOutcome
    /\ input0 = <<>>
    /\ evalLog = <<>>
    /\ calls = 0

\* process_workbook up to the while loop of get_evaluation_order: the caller
\* passes a workbook; the graph is extended; a cycle raises ValueError
\* (its text goes on with the list of cycles found, which the model leaves
\* out of msg)
Begin(wb) ==
    /\ pc \in {"idle", "done"}
    /\ LET h == Alloc(wb)
           G == _build_dependency_graph(Graph, wb)
       IN  /\ heap' = h
           /\ input' = Len(h)
           /\ input0' = wb
           /\ dependencies' = G.dependencies
           /\ depOrder' = G.depOrder
           /\ reverse_dependencies' = G.reverse_dependencies
           /\ evalLog' = <<>>
           /\ calls' = calls + 1
           /\ evaluation_order' = <<>>
           /\ IF detect_cycles(G) # <<>>
              THEN /\ outcome' = Raised("ValueError: Circular dependencies detected")
                   /\ pc' = "done"
                   /\ in_degree' = EmptyDict
                   /\ queue' = <<>>
              ELSE /\ outcome' = NoOutcome
                   /\ in_degree' = InDegree0(G)
                   /\ queue' \in InitialQueues(G)
                   /\ pc' = IF queue' = <<>> THEN "eval" ELSE "order"
    /\ UNCHANGED evaluated_cells

\* one iteration of `while queue:` in get_evaluation_order
OrderStep ==
    /\ pc = "order"
    /\ \E p \in IterationOrders(DictGet(reverse_dependencies, Head(queue), {})) :
          LET st == KahnStep(Graph,
                             [in_degree |-> in_degree, queue |-> queue,
                              result |-> evaluation_order], p)
          IN  /\ in_degree' = st.in_degree
              /\ queue' = st.queue
              /\ evaluation_order' = st.result
              /\ pc' = IF st.queue = <<>> THEN "eval" ELSE "order"
    /\ UNCHANGED <<heap, input, dependencies, depOrder, reverse_dependencies,
                   evaluated_cells, outcome, input0, evalLog, calls>>

\* one iteration of `for cell_id in evaluation_order:`
EvalStep ==
    /\ pc = "eval"
    /\ evaluation_order # <<>>
    /\ LET cell_id == Head(evaluation_order)
           wb == Deref(heap, input)
       IN  /\ evaluated_cells' = _evaluate_cell_with_dependencies(evaluated_cells, cell_id, wb)
           /\ evalLog' = IF Evaluates(cell_id, wb) THEN Append(evalLog, cell_id) ELSE evalLog
    /\ evaluation_order' = Tail(evaluation_order)
    /\ UNCHANGED <<heap, input, dependencies, depOrder, reverse_dependencies, pc,
                   in_degree, queue, outcome, input0, calls>>

\* the third pass and the return
Emit ==
    /\ pc = "eval"
    /\ evaluation_order = <<>>
    /\ heap' = ThirdPass(heap, input, evaluated_cells)
    /\ outcome' = Returned(Len(heap'))
    /\ pc' = "done"
    /\ UNCHANGED <<input, dependencies, depOrder, reverse_dependencies,
                   evaluated_cells, in_degree, queue, evaluation_order, input0,
                   evalLog, calls>>

\* one call on a fresh processor
FirstCall == calls = 0 /\ \E wb \in Workbooks : Begin(wb)

Next == FirstCall \/ OrderStep \/ EvalStep \/ Emit

Spec == Init /\ [][Next]_vars

-----------------------------------------------------------------------------
(* process_workbook as a whole, for comparing passes *)

\* the second pass: evaluated_cells after the loop over an evaluation order
RECURSIVE SecondPass(_, _, _)
SecondPass(evaluated, order, wb) ==
    IF order = <<>> THEN evaluated
    ELSE SecondPass(_evaluate_cell_with_dependencies(evaluated, Head(order), wb),
                    Tail(order), wb)

\* the workbook the third pass returns, as nested values
OutputOf(evaluated, wb) ==
    LET h == Alloc(wb)
        h2 == ThirdPass(h, Len(h), evaluated)
    IN  Deref(h2, Len(h2))

\* FormulaProcessor.process_workbook on a processor whose graph is G0 and
\* whose evaluated_cells is evaluated0: every way the call can end, one per
\* evaluation order the graph can yield
process_workbook(G0, evaluated0, wb) ==
    LET G == _build_dependency_graph(G0, wb)
    IN  IF detect_cycles(G) # <<>>
        THEN {[kind |-> "raised", msg |-> "ValueError: Circular dependencies detected"]}
        ELSE {[kind |-> "returned", wb |-> OutputOf(SecondPass(evaluated0, order, wb), wb)] :
                  order \in get_evaluation_order(G)}

\* the ways the call ends on a freshly constructed FormulaProcessor
FreshOutcomes(wb) == process_workbook(NewGraph, EmptyDict, wb)

\* how the call of the current state ended, in the same form
OutcomeValue ==
    IF outcome.kind = "returned"
    THEN [kind |-> "returned", wb |-> Deref(heap, outcome.root)]
    ELSE outcome

-----------------------------------------------------------------------------
(* What a pass is expected to do *)

\* the formula cells of a workbook, each with its key and its sheet name
FormulaCells(wb) ==
    LET all == CellsInOrder(wb, 1)
    IN  {[key |-> Key(all[n].sheet, all[n].cell.id), sheet |-> all[n].sheet,
          cell |-> all[n].cell] :
             n \in {m \in 1..Len(all) : HasFormula(all[m].cell)}}

\* the formula cells whose text the parser accepts
ParsedCells(wb) ==
    {fc \in FormulaCells(wb) : ~IsExc(parse_excel_formula(fc.cell.formula))}

\* the Cell nodes of an expression that stand alone, outside any range
RECURSIVE SingleCells(_)
SingleCells(ast) ==
    CASE ast.k = "Cell" -> {ast}
      [] ast.k = "BinOp" -> SingleCells(ast.left) \cup SingleCells(ast.right)
      [] ast.k = "UnaryOp" -> SingleCells(ast.operand)
      [] ast.k = "FuncCall" -> UNION {SingleCells(ast.args[i]) : i \in 1..Len(ast.args)}
      [] OTHER -> {}

\* the CellRange nodes of an expression
RECURSIVE Ranges(_)
Ranges(ast) ==
    CASE ast.k = "CellRange" -> {ast}
      [] ast.k = "BinOp" -> Ranges(ast.left) \cup Ranges(ast.right)
      [] ast.k = "UnaryOp" -> Ranges(ast.operand)
      [] ast.k = "FuncCall" -> UNION {Ranges(ast.args[i]) : i \in 1..Len(ast.args)}
      [] OTHER -> {}

Min2(a, b) == IF a <= b THEN a ELSE b
Max2(a, b) == IF a >= b THEN a ELSE b

\* the keys of the rectangle between the corners of a range, on the sheet the
\* range names or else the sheet of the formula
Span(range, current_sheet) ==
    LET c1 == _column_to_number(range.start.tok.col)
        c2 == _column_to_number(range.end.tok.col)
        r1 == range.start.tok.row
        r2 == range.end.tok.row
        sheet == IF range.start.sheet # "" THEN range.start.sheet ELSE current_sheet
    IN  {Key(sheet, _format_cell_ref(c, r)) :
             c \in Min2(c1, c2)..Max2(c1, c2), r \in Min2(r1, r2)..Max2(r1, r2)}

\* the keys a formula cell names one by one
SingleRefs(fc) ==
    {QualifiedRef(c, fc.sheet) : c \in SingleCells(parse_excel_formula(fc.cell.formula))}

\* the keys a formula cell reads through its ranges
RangeRefs(fc) ==
    UNION {Span(r, fc.sheet) : r \in Ranges(parse_excel_formula(fc.cell.formula))}

\* edges reader -> read
SingleCellEdges(wb) ==
    UNION {{<<fc.key, k>> : k \in SingleRefs(fc)} : fc \in ParsedCells(wb)}
ReadEdges(wb) ==
    UNION {{<<fc.key, k>> : k \in SingleRefs(fc) \cup RangeRefs(fc)} :
               fc \in ParsedCells(wb)}

\* the nodes reachable from S along edges, S included
RECURSIVE ReachFrom(_, _)
ReachFrom(edges, S) ==
    LET T == S \cup {e[2] : e \in {f \in edges : f[1] \in S}}
    IN  IF T = S THEN S ELSE ReachFrom(edges, T)

HasCycle(edges) == \E e \in edges : e[1] \in ReachFrom(edges, {e[2]})

\* the position of a key in the log of evaluations, 0 when it is not there
LogIndex(k) ==
    IF \E i \in 1..Len(evalLog) : evalLog[i] = k
    THEN CHOOSE i \in 1..Len(evalLog) : evalLog[i] = k /\ \A j \in 1..(i - 1) : evalLog[j] # k
    ELSE 0

-----------------------------------------------------------------------------
(* Claims about one pass of a fresh processor (Spec) *)

\* C1: within one pass over an acyclic workbook, every formula cell whose
\* formula parses is evaluated exactly once, and only after every formula
\* cell its formula reads (one by one or through a range) has been evaluated
\* and its result stored in evaluated_cells.
C1_EvaluatedOnceAfterItsReads ==
    (outcome.kind = "returned" /\ ~HasCycle(ReadEdges(input0))) =>
        \A fc \in ParsedCells(input0) :
            /\ Cardinality({i \in 1..Len(evalLog) : evalLog[i] = fc.key}) = 1
            /\ \A k \in SingleRefs(fc) \cup RangeRefs(fc) :
                  (\E g \in FormulaCells(input0) : g.key = k) =>
                      /\ LogIndex(k) # 0
                      /\ LogIndex(k) < LogIndex(fc.key)
                      /\ k \in DOMAIN evaluated_cells

\* C2: when the single-cell references of the formula cells form a directed
\* cycle, process_workbook raises ValueError before any cell is evaluated and
\* constructs no output object.
C2_CycleRaisesBeforeEvaluation ==
    (calls > 0 /\ HasCycle(SingleCellEdges(input0))) =>
        /\ pc = "done"
        /\ outcome = Raised("ValueError: Circular dependencies detected")
        /\ evalLog = <<>>
        /\ evaluated_cells = EmptyDict
        /\ Len(heap) = input

\* a pass that raised over a workbook whose cycle runs through two cells
C2_Witness ==
    /\ outcome.kind = "raised"
    /\ HasCycle(SingleCellEdges(input0))
    /\ \A e \in SingleCellEdges(input0) : e[1] # e[2]

\* a pass that raised over a workbook holding a cell that names itself
C2_WitnessSelf ==
    /\ outcome.kind = "raised"
    /\ \E e \in SingleCellEdges(input0) : e[1] = e[2]

\* C3: the dependencies recorded for a formula cell that holds a range are
\* all the cells of the rectangle between the corners, so a formula cell
\* strictly inside the range is a recorded dependency of its reader.
C3_RangeDependenciesCoverSpan ==
    calls > 0 =>
        \A fc \in ParsedCells(input0) :
            RangeRefs(fc) \subseteq DictGet(dependencies, fc.key, {})

Output == Deref(heap, outcome.root)

\* the cells of a workbook in order, as [sheet, cell]
Cells(wb) == CellsInOrder(wb, 1)

\* C6: a pass leaves every object of the input workbook as it was, and the
\* workbook it returns, its sheets and its cells are objects constructed by
\* the pass, none of them an object of the input.
C6_InputUntouchedOutputNew ==
    calls > 0 =>
        /\ Len(heap) >= input
        /\ SubSeq(heap, 1, input) = Alloc(input0)
        /\ outcome.kind = "returned" =>
              /\ outcome.root > input
              /\ \A i \in DOMAIN heap[outcome.root].sheets :
                    LET sheet == heap[outcome.root].sheets[i]
                    IN  /\ sheet > input
                        /\ \A j \in DOMAIN heap[sheet].cells : heap[sheet].cells[j] > input

\* a pass returned a workbook in which a formula cell carries a computed
\* number while the input cell still has no value
C6_Witness ==
    /\ outcome.kind = "returned"
    /\ \E n \in DOMAIN Cells(Output) :
          /\ HasFormula(Cells(Output)[n].cell)
          /\ Cells(Output)[n].cell.value = Str("3.0")
          /\ Cells(Deref(heap, input))[n].cell.value = NoneV

\* C7: the returned workbook has the sheets of the input (names, order), each
\* with the cells of the input sheet (ids, order); every formula string is
\* the input's, and so is the value of every cell that has no formula.
C7_OnlyFormulaValuesDiffer ==
    outcome.kind = "returned" =>
        /\ Len(Output) = Len(input0)
        /\ \A i \in DOMAIN input0 :
              /\ Output[i].name = input0[i].name
              /\ Len(Output[i].cells) = Len(input0[i].cells)
              /\ \A j \in DOMAIN input0[i].cells :
                    LET a == input0[i].cells[j]
                        b == Output[i].cells[j]
                    IN  /\ b.id = a.id
                        /\ b.formula = a.formula
                        /\ ~HasFormula(a) => b.value = a.value

\* a returned workbook with a formula cell whose value changed beside value
\* cells holding a number text and a word
C7_Witness ==
    /\ outcome.kind = "returned"
    /\ \E n \in DOMAIN Cells(Output) :
          /\ HasFormula(Cells(input0)[n].cell)
          /\ Cells(Output)[n].cell.value # Cells(input0)[n].cell.value
    /\ \E n \in DOMAIN Cells(input0) : Cells(input0)[n].cell.value = Str("2")
    /\ \E n \in DOMAIN Cells(input0) : Cells(input0)[n].cell.value = Str("x")

\* the keys the first pass records for a formula cell: the cells it names one
\* by one and the two corners of each range
RecordedRefs(fc) ==
    SingleRefs(fc)
        \cup UNION {{QualifiedRef(r.start, fc.sheet), QualifiedRef(r.end, fc.sheet)} :
                        r \in Ranges(parse_excel_formula(fc.cell.formula))}

RecordedEdges(wb) ==
    UNION {{<<fc.key, k>> : k \in RecordedRefs(fc)} : fc \in ParsedCells(wb)}

C9_UnparseableGivesErrorSentinel ==
    outcome.kind = "returned" =>
        \A n \in DOMAIN Cells(Output) :
            LET c == Cells(Output)[n]
            IN  (HasFormula(c.cell) /\ IsExc(parse_excel_formula(c.cell.formula))) =>
                    /\ c.cell.value = Str("#ERROR")
                    /\ DictGet(dependencies, Key(c.sheet, c.cell.id), {}) = {}

\* the workbook with the leading '=' removed from every formula text
StripEq(wb) ==
    [i \in DOMAIN wb |->
        [name |-> wb[i].name,
         cells |-> [j \in DOMAIN wb[i].cells |->
                       LET c == wb[i].cells[j]
                       IN  IF HasFormula(c)
                           THEN [c EXCEPT !.formula = Formula(FALSE, c.formula.body)]
                           ELSE c]]]

\* the outcome of a call without the formula strings
ValuesOf(o) ==
    IF o.kind = "returned"
    THEN [kind |-> "returned",
          values |-> [n \in DOMAIN Cells(o.wb) |->
                         [sheet |-> Cells(o.wb)[n].sheet, id |-> Cells(o.wb)[n].cell.id,
                          value |-> Cells(o.wb)[n].cell.value]]]
    ELSE o

\* C10: a formula text that starts with '=' is processed as the text without
\* the '=': the call ends as it does on the workbook whose formulas have the
\* '=' removed.
C10_LeadingEqualsStripped ==
    pc = "done" =>
        ValuesOf(OutcomeValue) \in {ValuesOf(o) : o \in FreshOutcomes(StripEq(input0))}

-----------------------------------------------------------------------------
(* One processor used for several calls (SpecReuse) *)

\* the workbooks handed to a processor that is kept between calls: Sheet1
\* with A1 a value or A2 * 2, and A2 missing, a value or A1 + 1
ReuseWorkbooks ==
    {MkWorkbook(<<a1, Absent, a2, Absent>>, Absent) :
        a1 \in {SchemeCell("A1", Str("2"), NoneV),
                SchemeCell("A1", Str("10"), NoneV),
                SchemeCell("A1", NoneV, Formula(FALSE, BinOp(Cell(A2, ""), "*", Two)))},
        a2 \in {Absent,
                SchemeCell("A2", Str("2"), NoneV),
                SchemeCell("A2", NoneV, Formula(FALSE, BinOp(Cell(A1, ""), "+", One)))}}

\* a further call of process_workbook on the same FormulaProcessor
NextCall == calls < MaxCalls /\ \E wb \in ReuseWorkbooks : Begin(wb)

NextReuse == NextCall \/ OrderStep \/ EvalStep \/ Emit

SpecReuse == Init /\ [][NextReuse]_vars

\* C4: a call of process_workbook on a processor that has served earlier
\* calls ends the way it ends on a freshly constructed processor: no cell
\* value and no dependency edge of an earlier call takes part.
C4_CallIndependentOfEarlierCalls ==
    pc = "done" => OutcomeValue \in FreshOutcomes(input0)

-----------------------------------------------------------------------------
(* One pass over a sheet of fixed data and one formula (SpecCatalogue) *)

B2 == Ref(<<"B">>, 2)
C1 == Ref(<<"C">>, 1)
C2 == Ref(<<"C">>, 2)
D1 == Ref(<<"D">>, 1)
E1 == Ref(<<"E">>, 1)

Three == Number(PyFloat(3))

\* a CELL_REF token with '$' before its column, its row or both
Dollar(ref, cabs, rabs) == [ref EXCEPT !.cabs = cabs, !.rabs = rabs]

ArithmeticSigns == {"+", "-", "*", "/", "^"}
ComparisonSigns == {"=", "<>", "<=", ">=", "<", ">"}
BinarySigns == ArithmeticSigns \cup ComparisonSigns \cup {"&"}

\* at most this many arguments in a call of the catalogue
MaxArgs == 2

\* the argument lists of the calls of the catalogue
ArgLists ==
    LET choice == {Cell(A1, ""), Cell(C1, ""), String("a")}
    IN  {args \in UNION {[1..n -> choice] : n \in 0..MaxArgs} :
            \A i \in 1..(Len(args) - 1) : args[i] # args[i + 1]}

\* C1 holds A1 / 0 and E1 holds FOO(); an operator meets one of them, or both
OperatorFormulas ==
    {Formula(FALSE, BinOp(l, sign, r)) :
        sign \in BinarySigns,
        l \in {Cell(C1, ""), One},
        r \in {Cell(E1, ""), One, Cell(C1, "")}}
    \ {Formula(FALSE, BinOp(One, sign, Cell(E1, ""))) : sign \in BinarySigns}

\* A2 holds a word
WordFormulas ==
    {Formula(FALSE, BinOp(Cell(A2, ""), sign, One)) : sign \in {"<", "=", "&", "+"}}

DivisionFormulas ==
    {Formula(FALSE, BinOp(l, "/", r)) :
        l \in {Cell(A1, ""), One, Bool(TRUE), Cell(A2, ""), Cell(B2, "")},
        r \in {Zero, Cell(D1, ""), Bool(FALSE), BinOp(Cell(B1, ""), "-", Cell(B1, ""))}}

CallFormulas ==
    {Formula(FALSE, FuncCall(name, args)) : name \in {"FOO", "foo"}, args \in ArgLists}
    \cup {Formula(FALSE, FuncCall("sum", <<Cell(A1, ""), Cell(B1, "")>>)),
          Formula(FALSE, FuncCall("FOO", <<BinOp(Cell(A2, ""), "<", One)>>)),
          Formula(FALSE, FuncCall("FOO", <<CellRange(Cell(A1, ""), Cell(B2, ""))>>)),
          Formula(FALSE, FuncCall("FOO", <<CellRange(Cell(A1, "Sheet2"), Cell(A2, ""))>>))}

RangeFormulas ==
    {Formula(FALSE, CellRange(Cell(A1, ""), Cell(B2, ""))),          \* A1:B2
     Formula(FALSE, CellRange(Cell(B2, ""), Cell(A1, ""))),          \* B2:A1
     Formula(FALSE, CellRange(Cell(B1, ""), Cell(A2, ""))),          \* B1:A2
     Formula(FALSE, CellRange(Cell(A1, ""), Cell(A2, ""))),          \* A1:A2
     Formula(FALSE, FuncCall("SUM", <<CellRange(Cell(A1, ""), Cell(D1, ""))>>)),
                                                                     \* SUM(A1:D1)
     Formula(FALSE, FuncCall("SUM", <<CellRange(Cell(A1, "Sheet2"), Cell(A2, ""))>>)),
                                                                     \* SUM(Sheet2!A1:A2)
     Formula(FALSE, CellRange(Cell(A1, "Sheet2"), Cell(A2, ""))),    \* Sheet2!A1:A2
     Formula(FALSE, FuncCall("SUM", <<CellRange(Cell(A1, "S1"), Cell(A2, ""))>>)),
                                                                     \* SUM(S1!A1:A2)
     Formula(FALSE, CellRange(Cell(A1, "S1"), Cell(A2, ""))),        \* S1!A1:A2
     Formula(FALSE, CellRange(Cell(A1, "Sheet2"), Cell(A2, "Sheet2")))}
                                                                     \* Sheet2!A1:Sheet2!A2

ReferenceFormulas ==
    {Formula(FALSE, BinOp(Cell(Dollar(A1, c, r), ""), "+", One)) : c, r \in BOOLEAN}
                                                    \* A1 + 1, $A1 + 1, A$1 + 1, $A$1 + 1
    \cup {Formula(FALSE, Cell(Dollar(B1, c, r), "")) : c, r \in BOOLEAN}
    \cup {Formula(FALSE, Cell(B2, "")),             \* B2, a cell the sheet does not list
          Formula(FALSE, Cell(C2, "")),             \* C2, a cell without value
          Formula(FALSE, Cell(A2, "")),             \* A2, a word
          Formula(FALSE, Cell(A1, "Sheet2")),       \* Sheet2!A1
          Formula(FALSE, Unparseable)}

\* booleans, IF, arithmetic on cells without value, SUM and AVERAGE
FunctionFormulas ==
    {Formula(FALSE, Bool(b)) : b \in BOOLEAN}                       \* TRUE, FALSE
    \cup {Formula(FALSE, FuncCall("IF", <<BinOp(Cell(A1, ""), sign, Number(PyFloat(5)))>>
                                            \o rest)) :
              sign \in {"<", ">"},
              rest \in {<<String("Yes")>>, <<String("Yes"), String("No")>>,
                        <<Bool(TRUE), Bool(FALSE)>>, <<>>}}
    \cup {Formula(FALSE, BinOp(l, sign, r)) :
              sign \in {"+", "*", "-"},
              l \in {Cell(A1, "")},
              r \in {Cell(B2, ""), Cell(C2, ""), Cell(B1, "")}}
    \cup {Formula(FALSE, BinOp(Cell(B2, ""), "+", Cell(A1, ""))),
          Formula(FALSE, BinOp(Cell(A1, ""), "<", Cell(B1, ""))),
          Formula(FALSE, BinOp(Cell(A1, ""), "=", Cell(B1, "")))}
    \cup {Formula(FALSE, FuncCall(name, args)) :
              name \in {"SUM", "AVERAGE"},
              args \in {<<>>,
                        <<String("a")>>,
                        <<Cell(A2, "")>>,
                        <<Cell(B2, "")>>,
                        <<Cell(C1, "")>>,
                        <<Cell(A1, ""), Cell(B1, "")>>,
                        <<Cell(A1, ""), Cell(C1, "")>>,
                        <<Cell(A1, ""), String("a"), Cell(B2, "")>>,
                        <<CellRange(Cell(B2, ""), Cell(C2, ""))>>,
                        <<CellRange(Cell(A1, ""), Cell(B2, ""))>>,
                        <<CellRange(Cell(A1, ""), Cell(D1, ""))>>,
                        <<CellRange(Cell(A1, ""), Cell(A2, "")), Cell(B1, "")>>,
                        <<CellRange(Cell(A1, ""), Cell(B1, "")), BinOp(Cell(A1, ""), "/", Zero)>>}}

\* texts with two operators, and a sign before an operand
TokenFormulas ==
    {Formula(FALSE, Tokens(toks)) :
        toks \in {<<Cell(A1, ""), Op("+"), Cell(B1, ""), Op("*"), Three>>,
                  <<Cell(A1, ""), Op("*"), Cell(B1, ""), Op("+"), Three>>,
                  <<Number(PyFloat(10)), Op("-"), Number(PyFloat(5)), Op("-"), Two>>,
                  <<Op("-"), Cell(A1, ""), Op("+"), Two>>,
                  <<Two, Op("^"), Three, Op("^"), Two>>,
                  <<Two, Op("*"), Three, Op("^"), Two>>,
                  <<Cell(A1, ""), Op("<"), Cell(B1, ""), Op("+"), One>>,
                  <<Cell(A1, ""), Op("&"), Cell(B1, ""), Op("+"), One>>,
                  <<Cell(A1, ""), Op("*"), Op("-"), Cell(B1, "")>>,
                  <<Cell(A1, ""), Op("+")>>}}

Catalogue ==
    OperatorFormulas \cup WordFormulas \cup DivisionFormulas \cup CallFormulas
        \cup RangeFormulas \cup ReferenceFormulas \cup FunctionFormulas
        \cup TokenFormulas

\* Sheet1 with the formula f in F1; stored is the value attribute the
\* formula cells carry in the input
CatalogueWorkbook(f, stored) ==
    << [name |-> "Sheet1",
        cells |-> << SchemeCell("A1", Str("2"), NoneV),
                     SchemeCell("B1", Str("10"), NoneV),
                     SchemeCell("C1", stored, Formula(FALSE, BinOp(Cell(A1, ""), "/", Zero))),
                     SchemeCell("D1", Str("0"), NoneV),
                     SchemeCell("E1", stored, Formula(FALSE, FuncCall("FOO", <<>>))),
                     SchemeCell("F1", stored, f),
                     SchemeCell("A2", Str("a"), NoneV),
                     SchemeCell("C2", NoneV, NoneV) >>],
       [name |-> "Sheet2",
        cells |-> << SchemeCell("A1", Str("3"), NoneV),
                     SchemeCell("A2", Str("4"), NoneV) >>],
       [name |-> "S1",
        cells |-> << SchemeCell("A1", Str("5"), NoneV),
                     SchemeCell("A2", Str("6"), NoneV) >>] >>

CatalogueWorkbooks ==
    {CatalogueWorkbook(f, stored) : f \in Catalogue, stored \in {NoneV, Str("5")}}

\* one call on a fresh processor
CatalogueCall == calls = 0 /\ \E wb \in CatalogueWorkbooks : Begin(wb)

NextCatalogue == CatalogueCall \/ OrderStep \/ EvalStep \/ Emit

SpecCatalogue == Init /\ [][NextCatalogue]_vars

-----------------------------------------------------------------------------
(* Error values *)

\* the error values a cell can carry
ErrorValues == {"#DIV/0!", "#VALUE!", "#NAME?", "#REF!", "#CYCLE!", "#ERROR"}

\* the formula cells of the returned workbook, as [sheet, cell]
OutputFormulaCells ==
    {Cells(Output)[n] : n \in {m \in DOMAIN Cells(Output) : HasFormula(Cells(Output)[m].cell)}}

\* the value the returned workbook gives the cell `id` of `sheet`; None when
\* the sheet has no such cell
OutputValue(sheet, id) ==
    LET found == {c \in {Cells(Output)[n] : n \in DOMAIN Cells(Output)} :
                      c.sheet = sheet /\ c.cell.id = id}
    IN  IF found = {} THEN NoneV ELSE (CHOOSE c \in found : TRUE).cell.value

\* the error value an operand has when it is a reference to a cell that was
\* given an error value; "" otherwise
OperandError(ast, sheet) ==
    IF ast.k # "Cell" THEN ""
    ELSE LET value == OutputValue(IF ast.sheet = "" THEN sheet ELSE ast.sheet, ast.ref)
         IN  IF value # NoneV /\ value.s \in ErrorValues THEN value.s ELSE ""

\* C11: a cell whose formula is one binary operator (+ - * / ^ & or a
\* comparison) with an operand that refers to a cell holding an error value E
\* gets the value E; when both operands hold error values, the left one's.
C11_OperatorsPropagateErrors ==
    outcome.kind = "returned" =>
        \A c \in OutputFormulaCells :
            LET ast == parse_excel_formula(c.cell.formula)
            IN  (~IsExc(ast) /\ ast.k = "BinOp" /\ ast.op \in BinarySigns) =>
                    LET left == OperandError(ast.left, c.sheet)
                        right == OperandError(ast.right, c.sheet)
                    IN  /\ left # "" => c.cell.value = Str(left)
                        /\ (left = "" /\ right # "") => c.cell.value = Str(right)

\* what evaluating the formula of a cell yields before `evaluate` turns an
\* exception into text: a value, or the exception
RawResult(c) ==
    LET ast == parse_excel_formula(c.cell.formula)
    IN  IF IsExc(ast) THEN ast
        ELSE _evaluate_ast(ast, [wb |-> input0, computed_values |-> evaluated_cells,
                                 current_sheet |-> c.sheet])

\* the evaluation of a formula cell failed: its text did not parse, an
\* exception was raised, or the result is an error value
Failed(c) ==
    \/ IsExc(RawResult(c))
    \/ RawResult(c) # NoneV /\ RawResult(c).t = "str" /\ RawResult(c).s \in ErrorValues

\* C12: in a returned workbook the value of every formula cell whose
\* evaluation failed is one of the six error values #DIV/0!, #VALUE!, #NAME?,
\* #REF!, #CYCLE!, #ERROR.
C12_FailedCellsCarryErrorValue ==
    outcome.kind = "returned" =>
        \A c \in OutputFormulaCells :
            Failed(c) => /\ c.cell.value # NoneV
                         /\ c.cell.value.s \in ErrorValues

-----------------------------------------------------------------------------
(* Ranges *)

\* the value a reference to a cell that holds a number or a word reads
ReadValue(wb, sheet, id) ==
    LET found == FindCell(wb, Key(sheet, id))
    IN  IF found = NoneV \/ found.cell.value = NoneV THEN NoneV
        ELSE NumberOfText(found.cell.value.s)

\* the cells of `sheet` in the rectangle between two corners, row by row
RECURSIVE RowMajor(_, _, _, _, _, _)
RowMajor(wb, sheet, rows, cols, row, col) ==
    IF row > rows[2] THEN <<>>
    ELSE IF col > cols[2] THEN RowMajor(wb, sheet, rows, cols, row + 1, cols[1])
    ELSE <<ReadValue(wb, sheet, _number_to_column(col) \o ToString(row))>>
             \o RowMajor(wb, sheet, rows, cols, row, col + 1)

\* the values of the rectangle two corner tokens span on `sheet`
Rectangle(wb, sheet, start, end) ==
    LET c1 == _column_to_number(start.col)
        c2 == _column_to_number(end.col)
        rows == <<Min2(start.row, end.row), Max2(start.row, end.row)>>
        cols == <<Min2(c1, c2), Max2(c1, c2)>>
    IN  ListV(RowMajor(wb, sheet, rows, cols, rows[1], cols[1]))

\* C13: a cell whose formula is a range with a sheet prefix on its start
\* corner, or SUM of such a range, naming another sheet than the cell's own,
\* gets the values of the cells of the named sheet in the span, whatever the
\* sheet is called.
C13_PrefixedRangeReadsNamedSheet ==
    outcome.kind = "returned" =>
        \A c \in OutputFormulaCells :
            LET ast == parse_excel_formula(c.cell.formula)
                range == IF IsExc(ast) THEN NoneV
                         ELSE IF ast.k = "CellRange" THEN ast
                         ELSE IF ast.k = "FuncCall" /\ ast.name = "SUM" /\ Len(ast.args) = 1
                                   /\ ast.args[1].k = "CellRange"
                         THEN ast.args[1]
                         ELSE NoneV
            IN  (range # NoneV /\ range.start.sheet \notin {"", c.sheet}) =>
                    LET values == Rectangle(input0, range.start.sheet,
                                            range.start.tok, range.end.tok)
                    IN  c.cell.value =
                            Str(IF ast.k = "CellRange" THEN PyStr(values)
                                ELSE Format1(_sum(<<values>>)))

-----------------------------------------------------------------------------
(* The value attribute of formula cells *)

\* the workbook without the value attributes of its formula cells
ClearFormulaValues(wb) ==
    [i \in DOMAIN wb |->
        [name |-> wb[i].name,
         cells |-> [j \in DOMAIN wb[i].cells |->
                       LET c == wb[i].cells[j]
                       IN  IF HasFormula(c) THEN [c EXCEPT !.value = NoneV] ELSE c]]]

\* C14: what a pass returns does not depend on the value attributes the input
\* gives its formula cells: the pass ends as it ends on the same workbook
\* without those attributes (so any two workbooks that differ only there end
\* alike).
C14_StoredValueOfFormulaCellIgnored ==
    pc = "done" =>
        /\ OutcomeValue \in FreshOutcomes(ClearFormulaValues(input0))
        /\ FreshOutcomes(input0) = FreshOutcomes(ClearFormulaValues(input0))

\* a returned workbook whose input stored a value on a formula cell that the
\* formula of another cell refers to
C14_Witness ==
    /\ outcome.kind = "returned"
    /\ \E c \in FormulaCells(input0), d \in ParsedCells(input0) :
          /\ c.cell.value # NoneV
          /\ c.key \in SingleRefs(d)
          /\ OutputValue(c.sheet, c.cell.id) # c.cell.value

-----------------------------------------------------------------------------
(* Absolute markers *)

\* an expression with the '$' removed from every reference
RECURSIVE StripDollar(_)
StripDollar(ast) ==
    CASE ast.k = "Cell" -> Cell(Dollar(ast.tok, FALSE, FALSE), ast.sheet)
      [] ast.k = "CellRange" -> CellRange(StripDollar(ast.start), StripDollar(ast.end))
      [] ast.k = "FuncCall" ->
            FuncCall(ast.name, [i \in DOMAIN ast.args |-> StripDollar(ast.args[i])])
      [] ast.k = "BinOp" -> BinOp(StripDollar(ast.left), ast.op, StripDollar(ast.right))
      [] ast.k = "UnaryOp" -> UnaryOp(ast.op, StripDollar(ast.operand))
      [] ast.k = "Tokens" -> Tokens([i \in DOMAIN ast.toks |-> StripDollar(ast.toks[i])])
      [] OTHER -> ast

\* the workbook with the '$' removed from every formula
WithoutDollars(wb) ==
    [i \in DOMAIN wb |->
        [name |-> wb[i].name,
         cells |-> [j \in DOMAIN wb[i].cells |->
                       LET c == wb[i].cells[j]
                       IN  IF HasFormula(c)
                           THEN [c EXCEPT !.formula =
                                    Formula(c.formula.eq, StripDollar(c.formula.body))]
                           ELSE c]]]

\* C15: a pass over a workbook whose formulas write references with '$'
\* ($A$1, $A1, A$1) records the dependencies and gives the cells the values
\* of the pass over the same workbook with the '$' left out (A1).
C15_DollarMarkersKeepIdentity ==
    pc = "done" =>
        /\ dependencies = _build_dependency_graph(NewGraph, WithoutDollars(input0)).dependencies
        /\ {ValuesOf(o) : o \in FreshOutcomes(input0)}
              = {ValuesOf(o) : o \in FreshOutcomes(WithoutDollars(input0))}

\* C16: a cell whose formula is a range of its own sheet gets the values of
\* the cells of the rectangle between the two corners, row by row, whichever
\* corner is written first: B2:A1 gives what A1:B2 gives (A1, B1, A2, B2).
C16_RangeIsRowMajorRectangle ==
    outcome.kind = "returned" =>
        \A c \in OutputFormulaCells :
            LET ast == parse_excel_formula(c.cell.formula)
            IN  (~IsExc(ast) /\ ast.k = "CellRange"
                     /\ ast.start.sheet = "" /\ ast.end.sheet = "") =>
                    c.cell.value =
                        Str(PyStr(Rectangle(input0, c.sheet, ast.start.tok, ast.end.tok)))

-----------------------------------------------------------------------------
(* Empty results *)

\* C17: a formula cell whose formula evaluates to None (a reference to a cell
\* the sheet does not list, or to a cell without value) is returned with the
\* value None, not with an error text.
C17_EmptyResultEmittedAsNull ==
    outcome.kind = "returned" =>
        \A c \in OutputFormulaCells :
            RawResult(c) = NoneV => c.cell.value = NoneV

-----------------------------------------------------------------------------
(* Operator precedence *)

\* the levels of the binary operators, loosest first
Level(sign) ==
    CASE sign \in ComparisonSigns -> 1
      [] sign = "&" -> 2
      [] sign \in {"+", "-"} -> 3
      [] sign \in {"*", "/"} -> 4
      [] sign = "^" -> 5

\* whether the operator sign at position i stands between two operands (a
\* sign after another operator, or at the start, is a unary sign)
IsBinaryAt(toks, i) ==
    IsOp(toks[i]) /\ i > 1 /\ ~IsOp(toks[i - 1])

\* the tree of a token sequence when the binary operators group by level,
\* left to right within a level except '^', and a unary sign binds tightest
RECURSIVE Grouped(_)
Grouped(toks) ==
    LET binary == {i \in DOMAIN toks : IsBinaryAt(toks, i)}
    IN  IF toks = <<>> THEN ParseError
        ELSE IF binary = {}
        THEN IF IsOp(toks[1])
             THEN IF toks[1].op \in {"-", "+"}
                  THEN LET operand == Grouped(Tail(toks))
                       IN  IF IsExc(operand) THEN operand
                           ELSE UnaryOp(toks[1].op, operand)
                  ELSE ParseError
             ELSE IF Len(toks) = 1 THEN toks[1] ELSE ParseError
        ELSE LET loosest == CHOOSE l \in 1..5 :
                                /\ \E i \in binary : Level(toks[i].op) = l
                                /\ \A i \in binary : Level(toks[i].op) >= l
                 at == {i \in binary : Level(toks[i].op) = loosest}
                 split == IF loosest = 5
                          THEN CHOOSE i \in at : \A j \in at : i <= j
                          ELSE CHOOSE i \in at : \A j \in at : i >= j
                 left == Grouped(SubSeq(toks, 1, split - 1))
                 right == Grouped(SubSeq(toks, split + 1, Len(toks)))
             IN  IF IsExc(left) THEN left
                 ELSE IF IsExc(right) THEN right
                 ELSE BinOp(left, toks[split].op, right)

\* the formulas of the input written as token sequences
TokenFormulasOf(wb) ==
    {fc.cell.formula : fc \in {f \in FormulaCells(wb) : f.cell.formula.body.k = "Tokens"}}

\* C18: parse_excel_formula groups operators by level (comparison, then &,
\* then + -, then * /, then ^, then the unary sign), left to right within a
\* level except ^: A1 * B1 + 3 is (A1 * B1) + 3, 10 - 5 - 2 is (10 - 5) - 2,
\* -A1 + 2 is (-A1) + 2.
C18_ParserGroupsByPrecedence ==
    \A f \in TokenFormulasOf(input0) :
        parse_excel_formula(f) = Grouped(f.body.toks)

-----------------------------------------------------------------------------
(* Unknown functions and division by zero *)

\* the names _evaluate_function knows
KnownFunctions == {"SUM", "AVERAGE", "COUNT", "MAX", "MIN", "IF"}

\* C19: a pass over a workbook with a cell whose formula calls a function
\* that, in upper case, is none of SUM, AVERAGE, COUNT, MAX, MIN, IF returns
\* a workbook in which that cell has the value #NAME?, whatever the arguments
\* of the call are.
C19_UnknownFunctionGivesName ==
    pc = "done" =>
        /\ outcome.kind = "returned"
        /\ \A c \in OutputFormulaCells :
              LET ast == parse_excel_formula(c.cell.formula)
              IN  (~IsExc(ast) /\ ast.k = "FuncCall"
                       /\ Upper(ast.name) \notin KnownFunctions) =>
                      c.cell.value = Str("#NAME?")

\* C20: a pass over a workbook with a cell whose formula is a division whose
\* divisor evaluates to the number zero returns a workbook in which that
\* cell has the value #DIV/0!.
C20_DivisionByZeroGivesDiv0 ==
    pc = "done" =>
        /\ outcome.kind = "returned"
        /\ \A c \in OutputFormulaCells :
              LET ast == parse_excel_formula(c.cell.formula)
                  R == [wb |-> input0, computed_values |-> evaluated_cells,
                        current_sheet |-> c.sheet]
              IN  (~IsExc(ast) /\ ast.k = "BinOp" /\ ast.op = "/"
                       /\ IsNumber(_evaluate_ast(ast.right, R))
                       /\ AsNum(_evaluate_ast(ast.right, R)).n = 0) =>
                      c.cell.value = Str("#DIV/0!")

-----------------------------------------------------------------------------
(* Booleans *)

-----------------------------------------------------------------------------
(* A DependencyGraph on its own (SpecGraph) *)

\* the keys the graph is built over
GraphCells == {"A1", "B1", "C1"}

\* at most this many add_dependency calls and registrations
MaxGraphOps == 4

\* add_dependency(a, b)
AddDependency ==
    /\ pc = "idle"
    /\ calls < MaxGraphOps
    /\ \E a, b \in GraphCells :
          LET G == add_dependency(Graph, a, b)
          IN  /\ dependencies' = G.dependencies
              /\ depOrder' = G.depOrder
              /\ reverse_dependencies' = G.reverse_dependencies
    /\ calls' = calls + 1
    /\ outcome' = NoOutcome
    /\ UNCHANGED <<heap, input, evaluated_cells, pc, in_degree, queue,
                   evaluation_order, input0, evalLog>>

\* a cell without dependencies is registered
RegisterCell ==
    /\ pc = "idle"
    /\ calls < MaxGraphOps
    /\ \E a \in GraphCells :
          LET G == register(Graph, a)
          IN  /\ dependencies' = G.dependencies
              /\ depOrder' = G.depOrder
              /\ reverse_dependencies' = G.reverse_dependencies
    /\ calls' = calls + 1
    /\ outcome' = NoOutcome
    /\ UNCHANGED <<heap, input, evaluated_cells, pc, in_degree, queue,
                   evaluation_order, input0, evalLog>>

\* get_dependencies(c) or get_dependents(c); outcome keeps what it returned
Query ==
    /\ pc = "idle"
    /\ \E c \in GraphCells, name \in {"get_dependencies", "get_dependents"} :
          LET r == IF name = "get_dependencies" THEN get_dependencies(Graph, c)
                   ELSE get_dependents(Graph, c)
          IN  /\ dependencies' = r.G.dependencies
              /\ depOrder' = r.G.depOrder
              /\ reverse_dependencies' = r.G.reverse_dependencies
              /\ outcome' = [kind |-> name, cell |-> c, result |-> r.result]
    /\ UNCHANGED <<heap, input, evaluated_cells, pc, in_degree, queue,
                   evaluation_order, input0, evalLog, calls>>

\* detect_cycles(); outcome keeps the list it returned
DetectCycles ==
    /\ pc = "idle"
    /\ \E iter \in Iterations(Graph) :
          outcome' = [kind |-> "detect_cycles",
                      cycles |-> detect_cycles_iterating(Graph, iter)]
    /\ pc' = "done"
    /\ UNCHANGED <<heap, input, dependencies, depOrder, reverse_dependencies,
                   evaluated_cells, in_degree, queue, evaluation_order, input0,
                   evalLog, calls>>

\* get_evaluation_order() up to its while loop; OrderStep runs the loop, and
\* the call has returned evaluation_order when pc = "eval"
GetEvaluationOrder ==
    /\ pc = "idle"
    /\ in_degree' = InDegree0(Graph)
    /\ queue' \in InitialQueues(Graph)
    /\ evaluation_order' = <<>>
    /\ pc' = IF queue' = <<>> THEN "eval" ELSE "order"
    /\ outcome' = NoOutcome
    /\ UNCHANGED <<heap, input, dependencies, depOrder, reverse_dependencies,
                   evaluated_cells, input0, evalLog, calls>>

NextGraph ==
    AddDependency \/ RegisterCell \/ Query \/ DetectCycles \/ GetEvaluationOrder
        \/ OrderStep

SpecGraph == Init /\ [][NextGraph]_vars

\* the while loop of get_evaluation_order is not abandoned
SpecGraphFair == SpecGraph /\ WF_vars(OrderStep)

-----------------------------------------------------------------------------
(* What the graph operations are expected to do *)

\* the position of a key in a list, 0 when it is not there
PositionIn(order, k) ==
    IF \E i \in DOMAIN order : order[i] = k
    THEN CHOOSE i \in DOMAIN order : order[i] = k
    ELSE 0

\* the edges u -> v, "u depends on v", of the forward map
ForwardEdges ==
    {<<u, v>> \in GraphCells \X GraphCells : v \in DictGet(dependencies, u, {})}

\* the nodes: every key of the forward map and every dependency target
GraphNodes ==
    DOMAIN dependencies \cup {e[2] : e \in ForwardEdges}

\* C22: the list get_evaluation_order returns has no key twice, and for
\* every edge "u depends on v" with both keys in the list, v stands before u.
C22_OrderTopologicallySound ==
    pc = "eval" =>
        /\ \A i, j \in DOMAIN evaluation_order :
              evaluation_order[i] = evaluation_order[j] => i = j
        /\ \A e \in ForwardEdges :
              (PositionIn(evaluation_order, e[1]) > 0
                   /\ PositionIn(evaluation_order, e[2]) > 0) =>
                  PositionIn(evaluation_order, e[2]) < PositionIn(evaluation_order, e[1])

\* a returned list of three keys, one of them depending on the two others
C22_Witness ==
    /\ pc = "eval"
    /\ Len(evaluation_order) = 3
    /\ \E u \in GraphCells : Cardinality(DictGet(dependencies, u, {}) \ {u}) = 2

\* the nodes that lie on a cycle of the forward map
OnCycle ==
    {n \in GraphNodes :
        \E e \in ForwardEdges : e[1] = n /\ n \in ReachFrom(ForwardEdges, {e[2]})}

\* the nodes that lie on a cycle or depend, directly or through other nodes,
\* on a node of a cycle
Blocked ==
    {n \in GraphNodes : ReachFrom(ForwardEdges, {n}) \cap OnCycle # {}}

\* the list holds exactly the nodes that are not blocked, each once (every
\* node, when the graph has no cycle)
OrderComplete ==
    /\ {evaluation_order[i] : i \in DOMAIN evaluation_order} = GraphNodes \ Blocked
    /\ Len(evaluation_order) = Cardinality(GraphNodes \ Blocked)

\* C23: get_evaluation_order returns, whatever the graph; the list it
\* returns holds every node exactly once when the graph has no cycle, and
\* otherwise every node but those on a cycle and those that depend on a node
\* of a cycle.
C23_OrderTerminatesAndComplete ==
    /\ [](pc = "eval" => OrderComplete)
    /\ (pc = "order") ~> (pc = "eval")

\* a returned list of a graph with a cycle, a node that is not on the cycle
\* but depends on it, and a node that is listed
C23_Witness ==
    /\ pc = "eval"
    /\ OnCycle # {}
    /\ Blocked \ OnCycle # {}
    /\ evaluation_order # <<>>

\* a list that walks along dependency edges and ends where it starts
IsCycle(cycle) ==
    /\ Len(cycle) >= 2
    /\ cycle[1] = cycle[Len(cycle)]
    /\ \A i \in 1..(Len(cycle) - 1) : <<cycle[i], cycle[i + 1]>> \in ForwardEdges

\* C24: detect_cycles returns a non-empty list exactly when the forward map
\* has a directed cycle, a cell depending on itself included, and every list
\* it reports is a cycle: each element depends on the next and the last
\* element is the first.
C24_DetectCyclesExact ==
    outcome.kind = "detect_cycles" =>
        /\ (outcome.cycles # <<>>) <=> (OnCycle # {})
        /\ \A i \in DOMAIN outcome.cycles : IsCycle(outcome.cycles[i])

\* detect_cycles has reported a cell that depends on itself and a cycle
\* through two cells
C24_Witness ==
    /\ outcome.kind = "detect_cycles"
    /\ \E i, j \in DOMAIN outcome.cycles :
          Len(outcome.cycles[i]) = 2 /\ Len(outcome.cycles[j]) = 3

\* b is in dependencies[a] exactly when a is in reverse_dependencies[b]
MapsConsistent ==
    \A a, b \in GraphCells :
        (b \in DictGet(dependencies, a, {})) <=> (a \in DictGet(reverse_dependencies, b, {}))

\* C25: after any sequence of add_dependency calls, registrations and
\* queries the two maps agree (b is in dependencies[a] exactly when a is in
\* reverse_dependencies[b]), and a get_dependencies or get_dependents query
\* leaves both maps as they were, adding no key and no edge.
C25_MapsConsistentQueriesPure ==
    /\ []MapsConsistent
    /\ [][Query => UNCHANGED <<dependencies, depOrder, reverse_dependencies>>]_vars

\* a query has returned a non-empty set on a graph that also holds a
\* registered cell without dependencies
C25_Witness ==
    /\ outcome.kind = "get_dependents"
    /\ outcome.result # {}
    /\ \E c \in DOMAIN dependencies : dependencies[c] = {}
    /\ Cardinality(ForwardEdges) >= 2

-----------------------------------------------------------------------------
(* Reads during evaluation *)

\* the formula cells of the input that have no entry in evaluated_cells
Uncomputed ==
    {fc \in FormulaCells(input0) : fc.key \notin DOMAIN evaluated_cells}

\* C26: when a formula is about to be evaluated, each read it makes of a
\* formula cell that has no result yet returns None and raises nothing,
\* whether the cell is named alone, with or without sheet, or lies in a
\* range of the formula.
C26_UncomputedReadIsEmpty ==
    (pc = "eval" /\ evaluation_order # <<>> /\ Evaluates(Head(evaluation_order), input0)) =>
        LET found == FindCell(input0, Head(evaluation_order))
            ast == parse_excel_formula(found.cell.formula)
        IN  ~IsExc(ast) =>
                /\ \A n \in SingleCells(ast) :
                      (\E fc \in Uncomputed : fc.key = QualifiedRef(n, found.sheet)) =>
                          get_cell_value(input0, evaluated_cells, n.sheet, n.ref,
                                         found.sheet) = NoneV
                /\ \A r \in Ranges(ast) :
                      \A fc \in Uncomputed :
                          (r.start.sheet = "" /\ fc.key \in Span(r, found.sheet)) =>
                              get_cell_value(input0, evaluated_cells, "", fc.cell.id,
                                             found.sheet) = NoneV

-----------------------------------------------------------------------------
(* The evaluator *)

\* C27: evaluate returns a value for every formula, raising nothing, and
\* when parsing or evaluating the formula fails the value it returns is an
\* error value.
C27_EvaluateTotal ==
    \A c \in FormulaCells(input0) :
        c.key \in DOMAIN evaluated_cells =>
            /\ ~IsExc(evaluated_cells[c.key])
            /\ IsExc(RawResult(c)) =>
                  /\ evaluated_cells[c.key] # NoneV
                  /\ evaluated_cells[c.key].t = "str"
                  /\ evaluated_cells[c.key].s \in ErrorValues

\* the first half alone: what evaluate returns is a value, never an
\* exception
EvaluateReturnsValue ==
    \A k \in DOMAIN evaluated_cells : ~IsExc(evaluated_cells[k])

\* C28: in a returned workbook a cell whose formula is A + B or A * B, with
\* A a cell holding a number and B a cell that is missing or has no value,
\* has the value of A for + and 0 for *, not an error value.
C28_EmptyOperandCountsAsZero ==
    outcome.kind = "returned" =>
        \A c \in OutputFormulaCells :
            LET ast == parse_excel_formula(c.cell.formula)
                R == [wb |-> input0, computed_values |-> evaluated_cells,
                      current_sheet |-> c.sheet]
            IN  (~IsExc(ast) /\ ast.k = "BinOp" /\ ast.op \in {"+", "*"}
                     /\ ast.left.k = "Cell" /\ ast.right.k = "Cell"
                     /\ ~ast.right.tok.cabs /\ ~ast.right.tok.rabs
                     /\ _evaluate_ast(ast.left, R).t = "num"
                     /\ _evaluate_ast(ast.right, R) = NoneV) =>
                    c.cell.value =
                        Str(IF ast.op = "+" THEN Format1(_evaluate_ast(ast.left, R))
                            ELSE "0.0")


\* the values the arguments of a function call evaluate to once the workbook
\* is processed, ranges flattened into their elements
ArgumentValues(c) ==
    LET ast == parse_excel_formula(c.cell.formula)
        R == [wb |-> input0, computed_values |-> evaluated_cells,
              current_sheet |-> c.sheet]
    IN  [i \in 1..Len(ast.args) |-> _evaluate_ast(ast.args[i], R)]

RECURSIVE Flattened(_)
Flattened(values) ==
    IF values = <<>> THEN <<>>
    ELSE (IF Head(values) # NoneV /\ Head(values).t = "list"
          THEN Flattened(Head(values).items)
          ELSE <<Head(values)>>) \o Flattened(Tail(values))

\* the formula cells of the returned workbook that call the function `name`
\* and whose arguments all evaluate without raising
CallsOf(name) ==
    {c \in OutputFormulaCells :
        LET ast == parse_excel_formula(c.cell.formula)
        IN  /\ ~IsExc(ast) /\ ast.k = "FuncCall" /\ Upper(ast.name) = name
            /\ FirstExc(ArgumentValues(c)) = NoneV}

IsErrorValue(v) == v # NoneV /\ v.t = "str" /\ v.s \in ErrorValues

RECURSIVE Total(_)
Total(numbers) ==
    IF numbers = <<>> THEN PyFloat(0)
    ELSE NumAdd(Head(numbers), Total(Tail(numbers)))

\* C29: in a returned workbook a cell whose formula is SUM(...) has, when
\* one of the arguments or of the elements of a range argument is an error
\* value, that error value, and otherwise the sum of the numbers among the
\* arguments and range elements, text and empty values left out.
C29_SumAddsNumbersReturnsErrors ==
    outcome.kind = "returned" =>
        \A c \in CallsOf("SUM") :
            LET values == Flattened(ArgumentValues(c))
                errors == SelectSeq(values, IsErrorValue)
                numbers == SelectSeq(values, LAMBDA v : v # NoneV /\ v.t = "num")
            IN  IF errors # <<>>
                THEN \E i \in 1..Len(errors) : c.cell.value = errors[i]
                ELSE c.cell.value = Str(Format1(Total(numbers)))

\* C30: in a returned workbook a cell whose formula is AVERAGE(...) has the
\* value #DIV/0! when no argument or range element is a number, and
\* otherwise the sum of the numbers divided by their count.
C30_AverageOfNoNumbersIsDivZero ==
    outcome.kind = "returned" =>
        \A c \in CallsOf("AVERAGE") :
            LET values == Flattened(ArgumentValues(c))
                numbers == SelectSeq(values, LAMBDA v : v # NoneV /\ v.t = "num")
            IN  IF numbers = <<>>
                THEN c.cell.value = Str("#DIV/0!")
                ELSE c.cell.value =
                         Str(Format1(NumDiv(Total(numbers), PyInt(Len(numbers)))))

\* the two halves of C29 and C30 taken apart: SUM without an error among
\* its values, AVERAGE with a number among its values
SumWithoutErrors ==
    outcome.kind = "returned" =>
        \A c \in CallsOf("SUM") :
            LET values == Flattened(ArgumentValues(c))
            IN  SelectSeq(values, IsErrorValue) = <<>> =>
                    c.cell.value = Str(Format1(Total(SelectSeq(values,
                                        LAMBDA v : v # NoneV /\ v.t = "num"))))

AverageOfNumbers ==
    outcome.kind = "returned" =>
        \A c \in CallsOf("AVERAGE") :
            LET numbers == SelectSeq(Flattened(ArgumentValues(c)),
                                     LAMBDA v : v # NoneV /\ v.t = "num")
            IN  numbers # <<>> =>
                    c.cell.value =
                        Str(Format1(NumDiv(Total(numbers), PyInt(Len(numbers)))))

====
